---- MODULE Spec2Model ----
(***************************************************************************)
(* A model of playwright-test-reporter's result aggregation: the reporter  *)
(* (src/src/reporter.ts) and the TestUtils helpers it calls (utils.ts,     *)
(* held as src/unnamed/part_000).                                          *)
(*                                                                         *)
(* Representation.                                                         *)
(*  - A string is a TLA+ string where the code stores, compares or         *)
(*    concatenates it.  includes() works on the string's characters, a     *)
(*    sequence of one-character strings, so that substring containment is  *)
(*    computed, case-sensitively, as in the code; chars() gives the        *)
(*    characters of the strings the reporter holds.                        *)
(*  - A duration in seconds is held in thousandths of a second, so         *)
(*    result.duration / 1000 (milliseconds to seconds) keeps the integer.  *)
(*    averageTime, a quotient, is held as the fraction in lowest terms;    *)
(*    the rounding of floating-point numbers is not represented.           *)
(*  - _testRecords, a Map iterated in insertion order, is the sequence of  *)
(*    its values in insertion order; the key of a record is its title.     *)
(***************************************************************************)
EXTENDS Integers, Sequences, FiniteSets

----------------------------------------------------------------------------
(* The substrings the code searches for, as character sequences.           *)

\* "No node found"
sNoNodeFound ==
    <<"N", "o", " ", "n", "o", "d", "e", " ", "f", "o", "u", "n", "d">>
\* "not visible"
sNotVisible ==
    <<"n", "o", "t", " ", "v", "i", "s", "i", "b", "l", "e">>
\* "Timeout"
sTimeout ==
    <<"T", "i", "m", "e", "o", "u", "t">>
\* "timed out"
sTimedOut ==
    <<"t", "i", "m", "e", "d", " ", "o", "u", "t">>
\* "selector"
sSelector ==
    <<"s", "e", "l", "e", "c", "t", "o", "r">>
\* "locator"
sLocator ==
    <<"l", "o", "c", "a", "t", "o", "r">>
\* "expect("
sExpectParen ==
    <<"e", "x", "p", "e", "c", "t", "(">>
\* "assertion failed"
sAssertionFailed ==
    <<"a", "s", "s", "e", "r", "t", "i", "o", "n", " ", "f", "a", "i", "l", "e", "d">>
\* "Network"
sNetwork ==
    <<"N", "e", "t", "w", "o", "r", "k">>
\* "fetch failed"
sFetchFailed ==
    <<"f", "e", "t", "c", "h", " ", "f", "a", "i", "l", "e", "d">>
\* "status="
sStatusEq ==
    <<"s", "t", "a", "t", "u", "s", "=">>
\* "javascript error"
sJavascriptError ==
    <<"j", "a", "v", "a", "s", "c", "r", "i", "p", "t", " ", "e", "r", "r", "o", "r">>
\* "undefined is not"
sUndefinedIsNot ==
    <<"u", "n", "d", "e", "f", "i", "n", "e", "d", " ", "i", "s", " ", "n", "o", "t">>
\* "null"
sNull ==
    <<"n", "u", "l", "l">>
\* "navigation"
sNavigation ==
    <<"n", "a", "v", "i", "g", "a", "t", "i", "o", "n">>
\* "page.goto"
sPageGoto ==
    <<"p", "a", "g", "e", ".", "g", "o", "t", "o">>
\* "element is not clickable"
sElementNotClickable ==
    <<"e", "l", "e", "m", "e", "n", "t", " ", "i", "s", " ", "n", "o", "t", " ", "c",
    "l", "i", "c", "k", "a", "b", "l", "e">>
\* "intercepted"
sIntercepted ==
    <<"i", "n", "t", "e", "r", "c", "e", "p", "t", "e", "d">>
\* "permission"
sPermission ==
    <<"p", "e", "r", "m", "i", "s", "s", "i", "o", "n">>
\* "access denied"
sAccessDenied ==
    <<"a", "c", "c", "e", "s", "s", " ", "d", "e", "n", "i", "e", "d">>
\* "timeout"
sLowerTimeout ==
    <<"t", "i", "m", "e", "o", "u", "t">>

\* The characters of a string the reporter holds: the titles and messages of
\* the model's inputs and the code's own literals.  A table, because a TLA+
\* string has no characters to index.
chars(str) ==
    CASE str = "" -> <<>>
      [] str = "login" -> <<"l", "o", "g", "i", "n">>
      [] str = "checkout" -> <<"c", "h", "e", "c", "k", "o", "u", "t">>
      [] str = "Timeout of 5000ms exceeded" ->
            <<"T", "i", "m", "e", "o", "u", "t", " ", "o", "f", " ", "5", "0", "0", "0",
            "m", "s", " ", "e", "x", "c", "e", "e", "d", "e", "d">>
      [] str = "Network status=500" ->
            <<"N", "e", "t", "w", "o", "r", "k", " ", "s", "t", "a", "t", "u", "s", "=",
            "5", "0", "0">>
      [] str = "selector timed out" ->
            <<"s", "e", "l", "e", "c", "t", "o", "r", " ", "t", "i", "m", "e", "d", " ",
            "o", "u", "t">>
      [] str = "Test timeout of 30000ms exceeded." ->
            <<"T", "e", "s", "t", " ", "t", "i", "m", "e", "o", "u", "t", " ", "o", "f",
            " ", "3", "0", "0", "0", "0", "m", "s", " ", "e", "x", "c", "e", "e", "d",
            "e", "d", ".">>
      [] str = "No error message" ->
            <<"N", "o", " ", "e", "r", "r", "o", "r", " ", "m", "e", "s", "s", "a", "g",
            "e">>
      [] str = "Unknown error" ->
            <<"U", "n", "k", "n", "o", "w", "n", " ", "e", "r", "r", "o", "r">>
      [] str = "Test was interrupted" ->
            <<"T", "e", "s", "t", " ", "w", "a", "s", " ", "i", "n", "t", "e", "r", "r",
            "u", "p", "t", "e", "d">>
      [] str = "Unknown outcome: skipped" ->
            <<"U", "n", "k", "n", "o", "w", "n", " ", "o", "u", "t", "c", "o", "m", "e",
            ":", " ", "s", "k", "i", "p", "p", "e", "d">>
      [] str = "Unknown outcome: expected" ->
            <<"U", "n", "k", "n", "o", "w", "n", " ", "o", "u", "t", "c", "o", "m", "e",
            ":", " ", "e", "x", "p", "e", "c", "t", "e", "d">>
      [] str = "Unknown outcome: unexpected" ->
            <<"U", "n", "k", "n", "o", "w", "n", " ", "o", "u", "t", "c", "o", "m", "e",
            ":", " ", "u", "n", "e", "x", "p", "e", "c", "t", "e", "d">>
      [] str = "Unknown outcome: flaky" ->
            <<"U", "n", "k", "n", "o", "w", "n", " ", "o", "u", "t", "c", "o", "m", "e",
            ":", " ", "f", "l", "a", "k", "y">>
      [] str = "Unknown outcome: interrupted" ->
            <<"U", "n", "k", "n", "o", "w", "n", " ", "o", "u", "t", "c", "o", "m", "e",
            ":", " ", "i", "n", "t", "e", "r", "r", "u", "p", "t", "e", "d">>

----------------------------------------------------------------------------
(* Bounds of the model and the input sets of the host's callbacks.         *)

\* onTestEnd calls in one behaviour.
MaxAttempts == 2

\* onTestEnd, onError and onEnd calls in one behaviour.
MaxEvents == 3

\* JavaScript's undefined, for the optional stack of an error.
NoStack == "<undefined>"

\* JavaScript's undefined, for an annotation that is not there, a missing
\* description and an environment variable that is not set.
Unset == "<undefined>"

\* const FallbackTeam = 'Unknown'
FallbackTeam == "Unknown"

\* The most annotations of a test given to getOwningTeam called alone.
MaxAnnotations == 2

\* A TestCase: its id and title, the title of its parent suite, the file of
\* its location and its annotations.  This one names its team in an
\* annotation.
TestLogin ==
    [id |-> "id-1", title |-> "login", parentTitle |-> "Auth",
     file |-> "auth.spec.ts",
     annotations |-> << [type |-> "team", description |-> "Backend"] >>]

\* A test whose parent has no title, that has no location and no annotation.
TestCheckout ==
    [id |-> "id-2", title |-> "checkout", parentTitle |-> "",
     file |-> Unset, annotations |-> <<>>]

\* A test of another suite and file with the title of the first.
TestAdminLogin ==
    [id |-> "id-3", title |-> "login", parentTitle |-> "Admin",
     file |-> "admin.spec.ts",
     annotations |-> << [type |-> "owner", description |-> "QA"] >>]

\* The tests the model has.
Tests == {TestLogin, TestCheckout, TestAdminLogin}

\* A suite whose tests have titles of their own.
DistinctTitles == {TestLogin, TestCheckout}

\* What test.outcome() can return: the runner's four labels and a label the
\* code does not recognise.
OutcomeLabels == {"skipped", "expected", "unexpected", "flaky", "interrupted"}

\* TestResult values the runner hands to onTestEnd: status, duration
\* (milliseconds) and errors (message, optional stack).
Results ==
    { [status |-> "passed", duration |-> 1000, errors |-> <<>>],
      [status |-> "passed", duration |-> 2000, errors |-> <<>>],
      [status |-> "skipped", duration |-> 0, errors |-> <<>>],
      [status |-> "interrupted", duration |-> 1000,
       errors |-> << [message |-> "", stack |-> NoStack] >>],
      [status |-> "failed", duration |-> 1000,
       errors |-> << [message |-> "Timeout of 5000ms exceeded", stack |-> "at login.spec.ts:7"] >>],
      [status |-> "timedOut", duration |-> 2000,
       errors |-> << [message |-> "Network status=500", stack |-> NoStack] >>],
      [status |-> "failed", duration |-> 2000,
       errors |-> << [message |-> "selector timed out", stack |-> "at a.ts:1"],
                     [message |-> "Test timeout of 30000ms exceeded.",
                      stack |-> "at b.ts:2"] >>] }

\* config.maxSlowTestsToShow ?? 3
DefaultMaxSlowTestsToShow == 3

\* config.generateFix ?? false
DefaultGenerateFix == FALSE

\* The largest limit given to findSlowestTests called alone.
MaxSlowLimit == 2

\* The most attempts of a record given to findSlowestTests called alone.
MaxRecordAttempts == 2

\* The most durations given to calculateAverageTime called alone.
MaxDurations == 3

\* The most calls of processTestResults on one store.
MaxAggregations == 2

----------------------------------------------------------------------------
(* TestUtils (utils.ts).                                                   *)

\* String.prototype.includes: needle occurs in message as a contiguous run.
includes(message, needle) ==
    \E i \in 0..(Len(message) - Len(needle)) :
        \A j \in 1..Len(needle) : message[i + j] = needle[j]

\* categorizeError with the selector rule tested before the timeout rule.
categorizeErrorSelectorFirst(message) ==
    IF includes(message, sNoNodeFound) \/ includes(message, sNotVisible)
    THEN "ElementNotFound"
    ELSE IF includes(message, sSelector) \/ includes(message, sLocator)
    THEN "SelectorChanged"
    ELSE IF includes(message, sTimeout) \/ includes(message, sTimedOut)
    THEN "Timeout/DelayedElement"
    ELSE IF includes(message, sExpectParen) \/ includes(message, sAssertionFailed)
    THEN "AssertionFailure"
    ELSE IF includes(message, sNetwork) \/ includes(message, sFetchFailed)
            \/ includes(message, sStatusEq)
    THEN "NetworkError"
    ELSE IF includes(message, sJavascriptError) \/ includes(message, sUndefinedIsNot)
            \/ includes(message, sNull)
    THEN "JavaScriptError"
    ELSE IF includes(message, sNavigation) \/ includes(message, sPageGoto)
    THEN "NavigationError"
    ELSE IF includes(message, sElementNotClickable) \/ includes(message, sIntercepted)
    THEN "ElementInteractionError"
    ELSE IF includes(message, sPermission) \/ includes(message, sAccessDenied)
    THEN "PermissionError"
    ELSE "Unknown"

\* TestUtils.categorizeError: the if / else-if chain, in the code's order.
categorizeError(message) ==
    IF includes(message, sNoNodeFound) \/ includes(message, sNotVisible)
    THEN "ElementNotFound"
    ELSE IF includes(message, sTimeout) \/ includes(message, sTimedOut)
    THEN "Timeout/DelayedElement"
    ELSE IF includes(message, sSelector) \/ includes(message, sLocator)
    THEN "SelectorChanged"
    ELSE IF includes(message, sExpectParen) \/ includes(message, sAssertionFailed)
    THEN "AssertionFailure"
    ELSE IF includes(message, sNetwork) \/ includes(message, sFetchFailed)
            \/ includes(message, sStatusEq)
    THEN "NetworkError"
    ELSE IF includes(message, sJavascriptError) \/ includes(message, sUndefinedIsNot)
            \/ includes(message, sNull)
    THEN "JavaScriptError"
    ELSE IF includes(message, sNavigation) \/ includes(message, sPageGoto)
    THEN "NavigationError"
    ELSE IF includes(message, sElementNotClickable) \/ includes(message, sIntercepted)
    THEN "ElementInteractionError"
    ELSE IF includes(message, sPermission) \/ includes(message, sAccessDenied)
    THEN "PermissionError"
    ELSE "Unknown"

\* The strings the reporter can hold as an error message: the domain of chars.
HeldStrings ==
    { "", "Timeout of 5000ms exceeded", "Network status=500", "selector timed out",
      "Test timeout of 30000ms exceeded.", "No error message", "Unknown error",
      "Test was interrupted", "Unknown outcome: skipped", "Unknown outcome: expected",
      "Unknown outcome: unexpected", "Unknown outcome: flaky",
      "Unknown outcome: interrupted" }

\* categorizeError(str) for each string the reporter can hold, computed once.
categoryOf == [str \in HeldStrings |-> categorizeError(chars(str))]

\* str.includes('timeout') for each string the reporter can hold, computed
\* once.
includesTimeout == [str \in HeldStrings |-> includes(chars(str), sLowerTimeout)]

\* TestUtils.outcomeToStatus.
outcomeToStatus(outcome) ==
    CASE outcome = "skipped" -> "skipped"
      [] outcome = "expected" -> "passed"
      [] outcome = "unexpected" -> "failed"
      [] outcome = "flaky" -> "failed"
      [] OTHER -> outcome

\* value || fallback for an optional string: undefined and the empty string
\* are falsy.
orDefault(value, fallback) ==
    IF value = Unset \/ value = "" THEN fallback ELSE value

\* e.stack || '' for an optional stack.
stackOrEmpty(stack) == IF stack = NoStack THEN "" ELSE stack

\* Array.prototype.join('\n') over strings.
RECURSIVE joinLines(_)
joinLines(strs) ==
    IF strs = <<>> THEN ""
    ELSE IF Len(strs) = 1 THEN strs[1]
    ELSE strs[1] \o "\n" \o joinLines(Tail(strs))

\* attempts.filter((a) => a.status === 'passed')
passedAttempts(attempts) ==
    LET isPassed(a) == a.status = "passed"
    IN SelectSeq(attempts, isPassed)

\* The durations of the passed attempts of one record, in attempt order.
passedDurationsOf(attempts) ==
    LET passed == passedAttempts(attempts)
    IN [i \in 1..Len(passed) |-> passed[i].duration]

\* The branch of processTestResults a record takes, with the skipped label
\* falling through to the last branch.
branchOfSkippedAsOther(finalOutcome) ==
    IF finalOutcome = "expected" \/ finalOutcome = "flaky" THEN "passed"
    ELSE IF finalOutcome = "unexpected" THEN "unexpected"
    ELSE "other"

\* The branch of processTestResults' if / else-if chain a record takes.
branchOf(finalOutcome) ==
    IF finalOutcome = "expected" \/ finalOutcome = "flaky" THEN "passed"
    ELSE IF finalOutcome = "unexpected" THEN "unexpected"
    ELSE IF finalOutcome = "skipped" THEN "skipped"
    ELSE "other"

\* finalAttempt.errors.some((e) => e.message.includes('timeout'))
isTimeoutOf(errors) ==
    \E i \in 1..Len(errors) : includesTimeout[errors[i].message]

\* The TestFailure of an 'unexpected' record with the stack of the first
\* error alone.
unexpectedFailureFirstStack(test, finalAttempt) ==
    LET errors == finalAttempt.errors
        errorMessage == IF errors = <<>> THEN "" ELSE errors[1].message
    IN [testId |-> test.testId,
        testTitle |-> test.testTitle,
        suiteTitle |-> orDefault(test.suiteTitle, "Unknown Suite"),
        owningTeam |-> orDefault(test.owningTeam, "Unknown Team"),
        testFile |-> test.testFile,
        errorMessage |-> errorMessage,
        errorStack |-> IF errors = <<>> THEN "" ELSE stackOrEmpty(errors[1].stack),
        duration |-> finalAttempt.duration,
        isTimeout |-> isTimeoutOf(errors),
        errorCategory |-> categoryOf[errorMessage]]

\* The TestFailure pushed for a record whose outcome is 'unexpected'.
unexpectedFailure(test, finalAttempt) ==
    LET errors == finalAttempt.errors
        stacks == [i \in 1..Len(errors) |-> stackOrEmpty(errors[i].stack)]
        errorMessage == IF errors = <<>> THEN "" ELSE errors[1].message
    IN [testId |-> test.testId,
        testTitle |-> test.testTitle,
        suiteTitle |-> orDefault(test.suiteTitle, "Unknown Suite"),
        owningTeam |-> orDefault(test.owningTeam, "Unknown Team"),
        testFile |-> test.testFile,
        errorMessage |-> errorMessage,
        errorStack |-> joinLines(stacks),
        duration |-> finalAttempt.duration,
        isTimeout |-> isTimeoutOf(errors),
        errorCategory |-> categoryOf[errorMessage]]

\* The TestFailure of a record of another label with the interruption
\* message whatever the last attempt's status.
otherFailureAlwaysInterrupted(test, finalAttempt) ==
    LET errorMessage == "Test was interrupted"
    IN [testId |-> test.testId,
        testTitle |-> test.testTitle,
        suiteTitle |-> orDefault(test.suiteTitle, "Unknown Suite"),
        owningTeam |-> orDefault(test.owningTeam, "Unknown Team"),
        testFile |-> test.testFile,
        errorMessage |-> errorMessage,
        errorStack |-> "",
        duration |-> finalAttempt.duration,
        isTimeout |-> FALSE,
        errorCategory |-> categoryOf[errorMessage]]

\* The TestFailure pushed for a record whose outcome is none of the four
\* handled labels.
otherFailure(test, finalAttempt) ==
    LET errorMessage ==
            IF finalAttempt.status = "interrupted"
            THEN "Test was interrupted"
            ELSE "Unknown outcome: " \o test.outcome
    IN [testId |-> test.testId,
        testTitle |-> test.testTitle,
        suiteTitle |-> orDefault(test.suiteTitle, "Unknown Suite"),
        owningTeam |-> orDefault(test.owningTeam, "Unknown Team"),
        testFile |-> test.testFile,
        errorMessage |-> errorMessage,
        errorStack |-> "",
        duration |-> finalAttempt.duration,
        isTimeout |-> FALSE,
        errorCategory |-> categoryOf[errorMessage]]

\* The last attempt taken with attempts.pop(): the attempt read, and the
\* array of the record without it.
finalAttemptPopped(attempts) ==
    [value |-> attempts[Len(attempts)],
     receiver |-> SubSeq(attempts, 1, Len(attempts) - 1)]

\* const finalAttempt = attempts[attempts.length - 1]: the attempt read, and
\* the array of the record after the read.  An index read writes nothing.
finalAttemptOf(attempts) ==
    [value |-> attempts[Len(attempts)],
     receiver |-> attempts]

\* One iteration of the loop with the skipped branch counting nothing.
processRecordSkippedUncounted(acc, record) ==
    LET test == record.test
        attempts == record.attempts
        finalAttempt == finalAttemptOf(attempts).value
        branch == branchOf(test.outcome)
        counted == [acc EXCEPT !.testCount = @ + 1]
    IN CASE branch = "passed" ->
              [counted EXCEPT !.passedCount = @ + 1,
                              !.passedDurations = @ \o passedDurationsOf(attempts)]
         [] branch = "unexpected" ->
              [counted EXCEPT !.failures = Append(@, unexpectedFailure(test, finalAttempt))]
         [] branch = "skipped" ->
              counted
         [] OTHER ->
              [counted EXCEPT !.failures = Append(@, otherFailure(test, finalAttempt))]

\* One iteration of the loop of processTestResults.
processRecord(acc, record) ==
    LET test == record.test
        attempts == record.attempts
        finalAttempt == finalAttemptOf(attempts).value
        branch == branchOf(test.outcome)
        counted == [acc EXCEPT !.testCount = @ + 1]
    IN CASE branch = "passed" ->
              [counted EXCEPT !.passedCount = @ + 1,
                              !.passedDurations = @ \o passedDurationsOf(attempts)]
         [] branch = "unexpected" ->
              [counted EXCEPT !.failures = Append(@, unexpectedFailure(test, finalAttempt))]
         [] branch = "skipped" ->
              [counted EXCEPT !.skippedCount = @ + 1]
         [] OTHER ->
              [counted EXCEPT !.failures = Append(@, otherFailure(test, finalAttempt))]

RECURSIVE processFrom(_, _, _)
\* The loop of processTestResults from the i-th record on.
processFrom(testRecords, i, acc) ==
    IF i > Len(testRecords) THEN acc
    ELSE processFrom(testRecords, i + 1, processRecord(acc, testRecords[i]))

\* TestUtils.processTestResults.
processTestResults(testRecords) ==
    LET zero == [passedCount |-> 0, testCount |-> 0, skippedCount |-> 0,
                 failedCount |-> 0, failures |-> <<>>, passedDurations |-> <<>>]
        acc == processFrom(testRecords, 1, zero)
    IN [acc EXCEPT !.failedCount = Len(acc.failures)]

\* The store emptied, as a function discarding the records it has read
\* would leave it.
storeAfterProcessingCleared(testRecords) == <<>>

\* A record as one iteration of the loop leaves it.  The iteration
\* destructures the record and reads the last of its attempts; filter, map
\* and some build new arrays, and the counters and lists written are locals
\* of the call.
recordAfterProcessing(record) ==
    [test |-> record.test,
     attempts |-> finalAttemptOf(record.attempts).receiver]

\* The store as processTestResults leaves it: every record of
\* testRecords.values() as its iteration leaves it, in the order of the map.
storeAfterProcessing(testRecords) ==
    [i \in 1..Len(testRecords) |-> recordAfterProcessing(testRecords[i])]

RECURSIVE gcd(_, _)
\* The greatest common divisor of two naturals.
gcd(a, b) == IF b = 0 THEN a ELSE gcd(b, a % b)

\* The number n / d, for d > 0, as a fraction in lowest terms.
quotient(n, d) ==
    LET g == gcd(n, d)
    IN [num |-> n \div g, den |-> d \div g]

RECURSIVE sumOf(_)
\* durations.reduce((sum, duration) => sum + duration, 0)
sumOf(durations) ==
    IF durations = <<>> THEN 0
    ELSE sumOf(SubSeq(durations, 1, Len(durations) - 1)) + durations[Len(durations)]

\* The average without the division by the number of durations.
calculateAverageTimeSum(durations) ==
    IF Len(durations) = 0 THEN quotient(0, 1)
    ELSE quotient(sumOf(durations), 1)

\* TestUtils.calculateAverageTime.
calculateAverageTime(durations) ==
    IF Len(durations) = 0 THEN quotient(0, 1)
    ELSE quotient(sumOf(durations), Len(durations))

\* The {testTitle, duration} entries of one record's passed attempts.
slowEntriesOf(record) ==
    LET passed == passedAttempts(record.attempts)
    IN [i \in 1..Len(passed) |->
           [testTitle |-> record.test.testTitle, duration |-> passed[i].duration]]

RECURSIVE flatMapSlow(_, _)
\* Array.from(testRecords.values()).flatMap(...) from the i-th record on.
flatMapSlow(testRecords, i) ==
    IF i > Len(testRecords) THEN <<>>
    ELSE slowEntriesOf(testRecords[i]) \o flatMapSlow(testRecords, i + 1)

\* Where a stable sort places x among the already sorted entries when the
\* comparator orders by ascending duration.
insertAscending(sorted, x) ==
    LET before == {i \in 1..Len(sorted) : sorted[i].duration <= x.duration}
        k == Cardinality(before)
    IN SubSeq(sorted, 1, k) \o <<x>> \o SubSeq(sorted, k + 1, Len(sorted))

\* Where a sort that puts the later of two equal entries first places x.
insertDescendingTiesFirst(sorted, x) ==
    LET before == {i \in 1..Len(sorted) : sorted[i].duration > x.duration}
        k == Cardinality(before)
    IN SubSeq(sorted, 1, k) \o <<x>> \o SubSeq(sorted, k + 1, Len(sorted))

\* Where a stable sort with comparator (a, b) => b.duration - a.duration
\* places x, which came after every entry of sorted: behind the entries whose
\* duration is not smaller.
insertDescending(sorted, x) ==
    LET before == {i \in 1..Len(sorted) : sorted[i].duration >= x.duration}
        k == Cardinality(before)
    IN SubSeq(sorted, 1, k) \o <<x>> \o SubSeq(sorted, k + 1, Len(sorted))

RECURSIVE sortFrom(_, _, _)
\* The stable sort of entries[i..], added to the sorted prefix.
sortFrom(entries, i, sorted) ==
    IF i > Len(entries) THEN sorted
    ELSE sortFrom(entries, i + 1, insertDescending(sorted, entries[i]))

\* Array.prototype.slice(0, limit).
sliceFromZero(s, limit) ==
    IF limit >= 0
    THEN SubSeq(s, 1, IF limit < Len(s) THEN limit ELSE Len(s))
    ELSE SubSeq(s, 1, IF Len(s) + limit > 0 THEN Len(s) + limit ELSE 0)

\* TestUtils.findSlowestTests.
findSlowestTests(testRecords, limit) ==
    sliceFromZero(sortFrom(flatMapSlow(testRecords, 1), 1, <<>>), limit)

\* Math.max(...passedDurations, 0)
maxWithZero(durations) ==
    IF durations = <<>> THEN 0
    ELSE CHOOSE m \in {durations[i] : i \in 1..Len(durations)} \cup {0} :
            \A i \in 1..Len(durations) : durations[i] <= m /\ 0 <= m

\* The names of the members of the enum Team, in the order of declaration,
\* which is the order for (const team in Team) enumerates them in.
TeamKeys ==
    << "Frontend", "Backend", "QA", "DevOps", "Performance", "Security",
       "Accessibility", "Mobile", "API", "Database", "Analytics",
       "Infrastructure", "Monitoring", "Documentation", "Support",
       "Marketing", "Sales", "Training", "Research", "Compliance", "Legal",
       "Product", "Design", "UserExperience", "UserInterface",
       "BusinessIntelligence", "DataScience", "DataEngineering",
       "DataAnalytics", "DataVisualization", "DataGovernance",
       "DataQuality" >>

\* The characters of the name of a member of Team.
teamChars(team) ==
    CASE team = "Frontend" ->
            <<"F", "r", "o", "n", "t", "e", "n", "d">>
      [] team = "Backend" ->
            <<"B", "a", "c", "k", "e", "n", "d">>
      [] team = "QA" ->
            <<"Q", "A">>
      [] team = "DevOps" ->
            <<"D", "e", "v", "O", "p", "s">>
      [] team = "Performance" ->
            <<"P", "e", "r", "f", "o", "r", "m", "a", "n", "c", "e">>
      [] team = "Security" ->
            <<"S", "e", "c", "u", "r", "i", "t", "y">>
      [] team = "Accessibility" ->
            <<"A", "c", "c", "e", "s", "s", "i", "b", "i", "l", "i", "t",
            "y">>
      [] team = "Mobile" ->
            <<"M", "o", "b", "i", "l", "e">>
      [] team = "API" ->
            <<"A", "P", "I">>
      [] team = "Database" ->
            <<"D", "a", "t", "a", "b", "a", "s", "e">>
      [] team = "Analytics" ->
            <<"A", "n", "a", "l", "y", "t", "i", "c", "s">>
      [] team = "Infrastructure" ->
            <<"I", "n", "f", "r", "a", "s", "t", "r", "u", "c", "t", "u",
            "r", "e">>
      [] team = "Monitoring" ->
            <<"M", "o", "n", "i", "t", "o", "r", "i", "n", "g">>
      [] team = "Documentation" ->
            <<"D", "o", "c", "u", "m", "e", "n", "t", "a", "t", "i", "o",
            "n">>
      [] team = "Support" ->
            <<"S", "u", "p", "p", "o", "r", "t">>
      [] team = "Marketing" ->
            <<"M", "a", "r", "k", "e", "t", "i", "n", "g">>
      [] team = "Sales" ->
            <<"S", "a", "l", "e", "s">>
      [] team = "Training" ->
            <<"T", "r", "a", "i", "n", "i", "n", "g">>
      [] team = "Research" ->
            <<"R", "e", "s", "e", "a", "r", "c", "h">>
      [] team = "Compliance" ->
            <<"C", "o", "m", "p", "l", "i", "a", "n", "c", "e">>
      [] team = "Legal" ->
            <<"L", "e", "g", "a", "l">>
      [] team = "Product" ->
            <<"P", "r", "o", "d", "u", "c", "t">>
      [] team = "Design" ->
            <<"D", "e", "s", "i", "g", "n">>
      [] team = "UserExperience" ->
            <<"U", "s", "e", "r", "E", "x", "p", "e", "r", "i", "e", "n",
            "c", "e">>
      [] team = "UserInterface" ->
            <<"U", "s", "e", "r", "I", "n", "t", "e", "r", "f", "a", "c",
            "e">>
      [] team = "BusinessIntelligence" ->
            <<"B", "u", "s", "i", "n", "e", "s", "s", "I", "n", "t", "e",
            "l", "l", "i", "g", "e", "n", "c", "e">>
      [] team = "DataScience" ->
            <<"D", "a", "t", "a", "S", "c", "i", "e", "n", "c", "e">>
      [] team = "DataEngineering" ->
            <<"D", "a", "t", "a", "E", "n", "g", "i", "n", "e", "e", "r",
            "i", "n", "g">>
      [] team = "DataAnalytics" ->
            <<"D", "a", "t", "a", "A", "n", "a", "l", "y", "t", "i", "c",
            "s">>
      [] team = "DataVisualization" ->
            <<"D", "a", "t", "a", "V", "i", "s", "u", "a", "l", "i", "z",
            "a", "t", "i", "o", "n">>
      [] team = "DataGovernance" ->
            <<"D", "a", "t", "a", "G", "o", "v", "e", "r", "n", "a", "n",
            "c", "e">>
      [] team = "DataQuality" ->
            <<"D", "a", "t", "a", "Q", "u", "a", "l", "i", "t", "y">>

\* The keys the object Team inherits from Object.prototype; the in operator
\* finds them as it finds the object's own keys.
InheritedKeys ==
    { "constructor", "hasOwnProperty", "isPrototypeOf", "propertyIsEnumerable",
      "toLocaleString", "toString", "valueOf", "__proto__",
      "__defineGetter__", "__defineSetter__", "__lookupGetter__",
      "__lookupSetter__" }

\* name in Team
inTeam(name) ==
    \/ \E i \in 1..Len(TeamKeys) : TeamKeys[i] = name
    \/ name \in InheritedKeys

\* TestUtils.wrap: `[${text}]`
wrap(text) == <<"[">> \o text \o <<"]">>

\* annotations.find((a) => a.type === type)?.description
descriptionOf(annotations, type) ==
    LET found == {i \in 1..Len(annotations) : annotations[i].type = type}
        first == CHOOSE i \in found : \A j \in found : i <= j
    IN IF found = {} THEN Unset ELSE annotations[first].description

\* TestUtils.getOwningTeam, with fallbackTeam the value of
\* process.env.FALLBACK_TEAM.
getOwningTeam(test, fallbackTeam) ==
    LET tagged == {i \in 1..Len(TeamKeys) :
                      includes(test.title, wrap(teamChars(TeamKeys[i])))}
        firstTagged == CHOOSE i \in tagged : \A j \in tagged : i <= j
        teamName == descriptionOf(test.annotations, "team")
        ownerName == descriptionOf(test.annotations, "owner")
    IN IF tagged # {} THEN TeamKeys[firstTagged]
       ELSE IF teamName # Unset /\ teamName # "" /\ inTeam(teamName)
       THEN teamName
       ELSE IF ownerName # Unset /\ ownerName # "" /\ inTeam(ownerName)
       THEN ownerName
       ELSE IF fallbackTeam # Unset /\ fallbackTeam # "" /\ inTeam(fallbackTeam)
       THEN fallbackTeam
       ELSE FallbackTeam

----------------------------------------------------------------------------
(* The reporter (reporter.ts) and its collaborators' visible effects.      *)

VARIABLES
    config,               \* _config, as the constructor left it
    testRecords,          \* _testRecords, in insertion order
    nonTestErrors,        \* _nonTestErrors
    hasInterruptedTests,  \* _hasInterruptedTests
    fileHandlerFailures,  \* the failures handed to _fileHandler.addFailure
    exitCode,             \* process.exitCode; -1 while it is undefined
    summary,              \* the TestSummary the last onEnd built, if any
    summaryFile,          \* testSummary.json, if written
    lastRunFile,          \* .last-run.json, if written
    runnerFlaky,          \* the titles whose test.outcome() last returned 'flaky'
    phase,                \* where the host is: NotStarted, Running, Generating
                          \* (onEnd awaits the fix suggestions), Ended
    calls,                \* how often the host called each callback
    args,                 \* the arguments of a call of a TestUtils function alone
    returned,             \* the results of the calls of it that returned
    generation,           \* _generateFixSuggestions: the failures its loop has
                          \* yet to take, and how it fared with those taken
    hostSuite             \* the tests of the suite the host runs

vars ==
    << config, testRecords, nonTestErrors, hasInterruptedTests,
       fileHandlerFailures, exitCode, summary, summaryFile, lastRunFile,
       runnerFlaky, phase, calls, args, returned, generation, hostSuite >>

\* The fields as the constructor initialises them, nothing written yet.
ReporterInit ==
    /\ testRecords = <<>>
    /\ nonTestErrors = <<>>
    /\ hasInterruptedTests = FALSE
    /\ fileHandlerFailures = <<>>
    /\ exitCode = -1
    /\ summary = <<>>
    /\ summaryFile = <<>>
    /\ lastRunFile = <<>>
    /\ runnerFlaky = {}
    /\ phase = "NotStarted"
    /\ calls = [onTestEnd |-> 0, onError |-> 0, onEnd |-> 0]
    /\ generation = [pending |-> <<>>, outcomes |-> <<>>]

\* The values of the option maxSlowTestsToShow the reporter is constructed
\* with: one that cuts the list, and the default.
ConfiguredLimits == {1, DefaultMaxSlowTestsToShow}

\* new PlaywrightTestReporter(options): maxSlowTestsToShow as the options
\* give it, or its default.
Init ==
    /\ config \in {[maxSlowTestsToShow |-> n, generateFix |-> DefaultGenerateFix] :
                     n \in ConfiguredLimits}
    /\ hostSuite = DistinctTitles
    /\ ReporterInit
    /\ args = <<>>
    /\ returned = <<>>

\* The host is between onBegin and onEnd, and may make one more onTestEnd,
\* onError or onEnd call.
mayCall ==
    /\ phase = "Running"
    /\ calls.onTestEnd + calls.onError + calls.onEnd < MaxEvents

\* The position of the record with this title in _testRecords, 0 if none.
indexOfTitle(records, title) ==
    IF \E i \in 1..Len(records) : records[i].test.testTitle = title
    THEN CHOOSE i \in 1..Len(records) : records[i].test.testTitle = title
    ELSE 0

\* config.projects as the host gives it to onBegin: not there, empty, or the
\* projects with the outputDir of each (missing, empty or a directory).
ProjectsGiven ==
    { [given |-> FALSE, list |-> <<>>] }
    \cup { [given |-> TRUE, list |-> list] :
             list \in { <<>>,
                        << [outputDir |-> Unset] >>,
                        << [outputDir |-> ""] >>,
                        << [outputDir |-> "project-results"] >>,
                        << [outputDir |-> Unset],
                           [outputDir |-> "project-results"] >> } }

\* Whether onBegin replaces _fileHandler: config.projects is there and not
\* empty, and some project has a truthy outputDir.
replacesFileHandler(projects) ==
    /\ projects.given
    /\ Len(projects.list) > 0
    /\ \E i \in 1..Len(projects.list) :
          /\ projects.list[i].outputDir # Unset
          /\ projects.list[i].outputDir # ""

\* onBegin: the host's first call.  It sets _startTime and, when a project
\* has an output directory, replaces _fileHandler by a new one, whose
\* failure list is empty; otherwise the handler keeps what it was handed.
OnBegin ==
    /\ phase = "NotStarted"
    /\ phase' = "Running"
    /\ \E projects \in ProjectsGiven :
          fileHandlerFailures' =
             IF replacesFileHandler(projects) THEN <<>> ELSE fileHandlerFailures
    /\ UNCHANGED << config, testRecords, nonTestErrors, hasInterruptedTests,
                    exitCode, summary, summaryFile, lastRunFile, runnerFlaky,
                    calls, args, returned, generation, hostSuite >>

\* onError: the error is logged and pushed on _nonTestErrors.  The method
\* tests nothing before it pushes.
onErrorHandler ==
    /\ \E error \in { [message |-> "globalSetup failed", stack |-> NoStack] } :
          nonTestErrors' = Append(nonTestErrors, error)
    /\ calls' = [calls EXCEPT !.onError = @ + 1]
    /\ UNCHANGED << config, phase, testRecords, hasInterruptedTests,
                    fileHandlerFailures, exitCode, summary, summaryFile,
                    lastRunFile, runnerFlaky, args, returned, generation,
                    hostSuite >>

\* The host's onError call between onBegin and onEnd.
OnError ==
    /\ mayCall
    /\ onErrorHandler

\* process.env.FALLBACK_TEAM in the runs of the reporter: not set.
EnvFallbackTeam == Unset

\* TestUtils.getOwningTeam(test) for each test of the suite, computed once.
owningTeamOf ==
    [test \in Tests |->
        getOwningTeam([title |-> chars(test.title),
                       annotations |-> test.annotations],
                      EnvFallbackTeam)]

\* The TestCaseDetails and empty attempt list set for a title seen first.
\* location, an object that holds testFile, is copied as testFile is.
newRecord(test, outcome) ==
    [test |-> [testId |-> test.id,
               testTitle |-> test.title,
               suiteTitle |-> orDefault(test.parentTitle, "Unknown Suite"),
               testFile |-> test.file,
               outcome |-> outcome,
               status |-> outcomeToStatus(outcome),
               owningTeam |-> owningTeamOf[test]],
     attempts |-> <<>>]

\* _testRecords with a record set for the test whether or not one exists.
ensureRecordAlways(records, test, outcome) ==
    Append(records, newRecord(test, outcome))

\* _testRecords with the details of the title's record taken anew from every
\* call.
ensureRecordRefreshed(records, test, outcome) ==
    LET i == indexOfTitle(records, test.title)
    IN IF i = 0
       THEN Append(records, newRecord(test, outcome))
       ELSE [records EXCEPT ![i].test = newRecord(test, outcome).test]

\* _testRecords after the has / set of onTestEnd.
ensureRecord(records, test, outcome) ==
    IF indexOfTitle(records, test.title) = 0
    THEN Append(records, newRecord(test, outcome))
    ELSE records

\* e.message || 'No error message'
messageOrDefault(m) == IF m = "" THEN "No error message" ELSE m

\* The AttemptInfo pushed for a TestResult.
attemptOf(result) ==
    LET errors == result.errors
    IN [status |-> result.status,
        duration |-> result.duration,
        errors |-> [i \in 1..Len(errors) |->
                      [message |-> messageOrDefault(errors[i].message),
                       stack |-> errors[i].stack]]]

\* _testRecords with the attempt put in front of the attempts of the title's
\* record, as unshift would.
pushAttemptInFront(records, title, attempt) ==
    LET i == indexOfTitle(records, title)
    IN [records EXCEPT ![i].attempts = <<attempt>> \o @]

\* _testRecords with the attempt put in the place of the attempts of the
\* title's record, as an assignment would.
pushAttemptReplacing(records, title, attempt) ==
    LET i == indexOfTitle(records, title)
    IN [records EXCEPT ![i].attempts = <<attempt>>]

\* _testRecords after the attempt is pushed on the record of the title.
pushAttempt(records, title, attempt) ==
    LET i == indexOfTitle(records, title)
    IN [records EXCEPT ![i].attempts = Append(@, attempt)]

\* The TestFailure built from the last error of the attempt instead of the
\* first.
attemptFailureLastError(test, result) ==
    LET errors == result.errors
        last == errors[Len(errors)]
        errorMessage ==
            IF errors = <<>> \/ last.message = ""
            THEN "Unknown error"
            ELSE last.message
    IN [testId |-> test.id,
        testTitle |-> test.title,
        suiteTitle |-> orDefault(test.parentTitle, "Unknown Suite"),
        owningTeam |-> owningTeamOf[test],
        testFile |-> test.file,
        errorMessage |-> errorMessage,
        errorStack |-> IF errors = <<>> THEN "" ELSE stackOrEmpty(last.stack),
        duration |-> result.duration,
        isTimeout |-> (result.status = "timedOut"),
        errorCategory |-> categoryOf[errorMessage]]

\* The TestFailure onTestEnd hands to the file handler for a failed or
\* timed-out attempt.
attemptFailure(test, result) ==
    LET errors == result.errors
        errorMessage ==
            IF errors = <<>> \/ errors[1].message = ""
            THEN "Unknown error"
            ELSE errors[1].message
    IN [testId |-> test.id,
        testTitle |-> test.title,
        suiteTitle |-> orDefault(test.parentTitle, "Unknown Suite"),
        owningTeam |-> owningTeamOf[test],
        testFile |-> test.file,
        errorMessage |-> errorMessage,
        errorStack |-> IF errors = <<>> THEN "" ELSE stackOrEmpty(errors[1].stack),
        duration |-> result.duration,
        isTimeout |-> (result.status = "timedOut"),
        errorCategory |-> categoryOf[errorMessage]]

\* FileHandler.addFailure: the failure joins the handler's list.
addFailure(failures, failure) == Append(failures, failure)

\* The flag taking the value of the last attempt's test instead of keeping
\* an earlier true.
interruptedFlagLastOnly(flag, status) == status = "interrupted"

\* _hasInterruptedTests after an attempt of this status.
interruptedFlag(flag, status) ==
    IF status = "interrupted" THEN TRUE ELSE flag

\* onTestEnd(test, result), with outcome the value test.outcome() returns now.
\* The method tests nothing but the presence of the title's record.
onTestEnd(test, outcome, result) ==
    /\ testRecords' =
          pushAttempt(ensureRecord(testRecords, test, outcome),
                      test.title, attemptOf(result))
    /\ fileHandlerFailures' =
          IF result.status = "failed" \/ result.status = "timedOut"
          THEN addFailure(fileHandlerFailures, attemptFailure(test, result))
          ELSE fileHandlerFailures
    /\ hasInterruptedTests' =
          interruptedFlag(hasInterruptedTests, result.status)
    /\ runnerFlaky' =
          IF outcome = "flaky"
          THEN runnerFlaky \cup {test.title}
          ELSE runnerFlaky \ {test.title}
    /\ calls' = [calls EXCEPT !.onTestEnd = @ + 1]
    /\ UNCHANGED << config, phase, nonTestErrors, exitCode, summary, summaryFile,
                    lastRunFile, args, returned, generation, hostSuite >>

\* onTestEnd for a test of the host's suite, the label its outcome() returns
\* and a result of the attempt.
onTestEndHandler ==
    \E test \in hostSuite, outcome \in OutcomeLabels, result \in Results :
        onTestEnd(test, outcome, result)

\* The host's onTestEnd call between onBegin and onEnd.
OnTestEnd ==
    /\ mayCall
    /\ calls.onTestEnd < MaxAttempts
    /\ onTestEndHandler

\* The zero-tests test of onEnd never taken.
noTestsFoundNever(testCount) == FALSE

\* if (testCount === 0): the "No tests found" case of onEnd.
noTestsFound(testCount) == testCount = 0

\* hasErrors without the non-test errors.
hasErrorsTestsOnly(failures, errors, interrupted) ==
    Len(failures) > 0 \/ interrupted

\* hasErrors without the failures of the tests.
hasErrorsWithoutFailures(failures, errors, interrupted) ==
    Len(errors) > 0 \/ interrupted

\* hasErrors without the interruption flag.
hasErrorsNoInterruption(failures, errors, interrupted) ==
    Len(failures) > 0 \/ Len(errors) > 0

\* const hasErrors = failures.length > 0 || this._nonTestErrors.length > 0
\*                   || this._hasInterruptedTests
hasErrors(failures, errors, interrupted) ==
    Len(failures) > 0 \/ Len(errors) > 0 \/ interrupted

\* _exitWithError() sets process.exitCode to 1, _exitWithSuccess() to 0.
exitCodeFor(errorsFound) == IF errorsFound THEN 1 ELSE 0

\* The TestSummary onEnd builds.
buildSummary(results, records, cfg) ==
    [failures |-> results.failures,
     testCount |-> results.testCount,
     passedCount |-> results.passedCount,
     skippedCount |-> results.skippedCount,
     failedCount |-> results.testCount - results.passedCount - results.skippedCount,
     averageTime |-> calculateAverageTime(results.passedDurations),
     slowestTest |-> maxWithZero(results.passedDurations),
     slowestTests |-> findSlowestTests(records, cfg.maxSlowTestsToShow)]

\* FileHandler.writeSummary: testSummary.json after the call, and whether the
\* call threw.  A write that fails is logged and leaves the file as it was.
writeSummary(s, allTestCases, file, writeOk) ==
    [file |-> IF writeOk THEN << [summary |-> s, tests |-> allTestCases] >> ELSE file,
     threw |-> FALSE]

\* The content saveLastRunStatus serialises.
lastRunData(records, hasFailed) ==
    LET isFailed(record) == record.test.status = "failed"
        failed == SelectSeq(records, isFailed)
    IN [status |-> IF hasFailed THEN "failed" ELSE "passed",
        failedTests |-> [i \in 1..Len(failed) |-> failed[i].test.testId]]

\* saveLastRunStatus without its try / catch: a failed write throws.
saveLastRunStatusUncaught(records, hasFailed, file, writeOk) ==
    [file |-> IF writeOk THEN << lastRunData(records, hasFailed) >> ELSE file,
     threw |-> ~writeOk]

\* saveLastRunStatus: .last-run.json after the call, and whether the call
\* threw.  The catch logs a failed write.
saveLastRunStatus(records, hasFailed, file, writeOk) ==
    [file |-> IF writeOk THEN << lastRunData(records, hasFailed) >> ELSE file,
     threw |-> FALSE]

\* if (this._config.generateFix && failures.length > 0): onEnd calls
\* _generateFixSuggestions and awaits it.
entersGeneration(cfg, failures) == cfg.generateFix /\ Len(failures) > 0

\* How one turn of the loop of _generateFixSuggestions can fare with a
\* failure: skipped when the failure has no testFile; otherwise the source
\* file cannot be read, or generateFixSuggestion returns a result, returns
\* nothing, or rejects.
generationOutcomes(failure) ==
    IF failure.testFile = Unset \/ failure.testFile = ""
    THEN {"skipped"}
    ELSE {"unreadable", "generated", "none", "rejected"}

\* The loop without its try / catch: an exception of a turn leaves
\* _generateFixSuggestions and onEnd.
escapesLoopUncaught(outcome) == outcome \in {"unreadable", "rejected"}

\* Whether the exception of a turn leaves the loop: the catch inside the loop
\* logs it and the loop goes on.
escapesLoop(outcome) == FALSE

\* What onEnd does after the summary is built and the fix suggestions, if
\* any, are there: it writes the two files and sets the exit code.
\* outputDirWritable says whether the file system lets the writes to the
\* output directory succeed.  An exception leaving onEnd skips what follows
\* it.
finishEnd(failures, s, outputDirWritable) ==
    LET allTestCases == [i \in 1..Len(testRecords) |-> testRecords[i].test]
        written == writeSummary(s, allTestCases, summaryFile, outputDirWritable)
        saved == saveLastRunStatus(testRecords, Len(failures) > 0,
                                   lastRunFile, outputDirWritable)
        completed == ~written.threw /\ ~saved.threw
    IN /\ summaryFile' = written.file
       /\ lastRunFile' = IF written.threw THEN lastRunFile ELSE saved.file
       /\ exitCode' =
             IF completed
             THEN exitCodeFor(hasErrors(failures, nonTestErrors,
                                        hasInterruptedTests))
             ELSE exitCode

\* onEnd when it does not await fix suggestions: one synchronous call.
onEndHandler ==
    /\ \E outputDirWritable \in BOOLEAN :
          LET results == processTestResults(testRecords)
              failures == results.failures
              s == buildSummary(results, testRecords, config)
          IN IF noTestsFound(results.testCount)
             THEN /\ exitCode' = exitCodeFor(TRUE)
                  /\ UNCHANGED << summary, summaryFile, lastRunFile >>
             ELSE /\ ~entersGeneration(config, failures)
                  /\ summary' = << s >>
                  /\ finishEnd(failures, s, outputDirWritable)
    /\ testRecords' = storeAfterProcessing(testRecords)
    /\ calls' = [calls EXCEPT !.onEnd = @ + 1]
    /\ phase' = "Ended"
    /\ UNCHANGED << config, nonTestErrors, hasInterruptedTests,
                    fileHandlerFailures, runnerFlaky, args, returned,
                    generation, hostSuite >>

\* The host's onEnd call that closes the run.
OnEnd ==
    /\ mayCall
    /\ onEndHandler

\* A further onEnd call of a host that already called onEnd.
OnEndAgain ==
    /\ phase = "Ended"
    /\ calls.onTestEnd + calls.onError + calls.onEnd < MaxEvents
    /\ onEndHandler

\* The host's onEnd call up to the await of _generateFixSuggestions: the
\* summary is built and the loop has every failure to take.
OnEndAwaitGeneration ==
    /\ mayCall
    /\ LET results == processTestResults(testRecords)
       IN /\ ~noTestsFound(results.testCount)
          /\ entersGeneration(config, results.failures)
          /\ summary' = << buildSummary(results, testRecords, config) >>
          /\ generation' = [pending |-> results.failures, outcomes |-> <<>>]
    /\ testRecords' = storeAfterProcessing(testRecords)
    /\ calls' = [calls EXCEPT !.onEnd = @ + 1]
    /\ phase' = "Generating"
    /\ UNCHANGED << config, nonTestErrors, hasInterruptedTests,
                    fileHandlerFailures, exitCode, summaryFile, lastRunFile,
                    runnerFlaky, args, returned, hostSuite >>

\* One turn of the loop of _generateFixSuggestions, for the next failure.
\* An exception that leaves the loop ends onEnd there.
GenerateFixSuggestion ==
    /\ phase = "Generating"
    /\ generation.pending # <<>>
    /\ \E outcome \in generationOutcomes(Head(generation.pending)) :
          /\ generation' = [pending |-> Tail(generation.pending),
                            outcomes |-> Append(generation.outcomes, outcome)]
          /\ phase' = IF escapesLoop(outcome) THEN "Ended" ELSE phase
    /\ UNCHANGED << config, testRecords, nonTestErrors, hasInterruptedTests,
                    fileHandlerFailures, exitCode, summary, summaryFile,
                    lastRunFile, runnerFlaky, calls, args, returned,
                    hostSuite >>

\* onEnd after the await: the loop has taken every failure.
OnEndAfterGeneration ==
    /\ phase = "Generating"
    /\ generation.pending = <<>>
    /\ \E outputDirWritable \in BOOLEAN :
          finishEnd(summary[1].failures, summary[1], outputDirWritable)
    /\ phase' = "Ended"
    /\ UNCHANGED << config, testRecords, nonTestErrors, hasInterruptedTests,
                    fileHandlerFailures, summary, runnerFlaky, calls, args,
                    returned, generation, hostSuite >>

\* An onError call made before onBegin or after onEnd.
OnErrorOutsideRun ==
    /\ phase # "Running"
    /\ calls.onTestEnd + calls.onError + calls.onEnd < MaxEvents
    /\ onErrorHandler

\* An onTestEnd call made before onBegin or after onEnd.
OnTestEndOutsideRun ==
    /\ phase # "Running"
    /\ calls.onTestEnd + calls.onError + calls.onEnd < MaxEvents
    /\ calls.onTestEnd < MaxAttempts
    /\ onTestEndHandler

----------------------------------------------------------------------------
(* TestUtils functions on their own: the arguments are given, the result  *)
(* is computed.                                                            *)

\* The reporter as constructed with its defaults, untouched by a call of a
\* TestUtils function alone.
ReporterIdle ==
    /\ config = [maxSlowTestsToShow |-> DefaultMaxSlowTestsToShow,
                 generateFix |-> DefaultGenerateFix]
    /\ hostSuite = {}
    /\ ReporterInit

\* The substrings of the nine rules of categorizeError.
RuleSubstrings ==
    { sNoNodeFound, sNotVisible, sTimeout, sTimedOut, sSelector, sLocator,
      sExpectParen, sAssertionFailed, sNetwork, sFetchFailed, sStatusEq,
      sJavascriptError, sUndefinedIsNot, sNull, sNavigation, sPageGoto,
      sElementNotClickable, sIntercepted, sPermission, sAccessDenied }

\* Messages given to categorizeError: the empty message, each substring of a
\* rule, each two of them separated by a space (in both orders), the
\* lower-case "timeout", and the messages the reporter holds.
ClassifierInputs ==
    {<<>>, sLowerTimeout}
    \cup RuleSubstrings
    \cup {a \o <<" ">> \o b : a \in RuleSubstrings, b \in RuleSubstrings}
    \cup {chars(m) : m \in HeldStrings}

InitCategorize ==
    /\ ReporterIdle
    /\ args \in {[message |-> m] : m \in ClassifierInputs}
    /\ returned = <<>>

\* A call of categorizeError(message).
Categorize ==
    /\ returned = <<>>
    /\ returned' = << categorizeError(args.message) >>
    /\ UNCHANGED << args, config, testRecords, nonTestErrors,
                    hasInterruptedTests, fileHandlerFailures, exitCode, summary,
                    summaryFile, lastRunFile, runnerFlaky, phase, calls,
                    generation, hostSuite >>

NextCategorize == Categorize

SpecCategorize == InitCategorize /\ [][NextCategorize]_vars

\* The attempts of the records given to findSlowestTests.
SlowAttemptInputs ==
    { [status |-> "passed", duration |-> 1000, errors |-> <<>>],
      [status |-> "passed", duration |-> 2000, errors |-> <<>>],
      [status |-> "failed", duration |-> 3000,
       errors |-> << [message |-> "No error message", stack |-> NoStack] >>] }

\* The attempt lists of a record: one to MaxRecordAttempts attempts.
AttemptLists ==
    UNION { [1..n -> SlowAttemptInputs] : n \in 1..MaxRecordAttempts }

\* The records onTestEnd can have built for a test.
RecordsOf(test) ==
    { [newRecord(test, "expected") EXCEPT !.attempts = a] : a \in AttemptLists }

\* The stores given to findSlowestTests: no record, a record of the first
\* test, or records of both tests.
StoreInputs ==
    LET first == TestLogin
        second == TestCheckout
    IN {<<>>}
       \cup { <<r>> : r \in RecordsOf(first) }
       \cup { <<r, q>> : r \in RecordsOf(first), q \in RecordsOf(second) }

InitSlowest ==
    /\ ReporterIdle
    /\ args \in {[testRecords |-> s, limit |-> n] :
                    s \in StoreInputs, n \in 0..MaxSlowLimit}
    /\ returned = <<>>

\* A call of findSlowestTests(testRecords, limit).
FindSlowest ==
    /\ returned = <<>>
    /\ returned' = << findSlowestTests(args.testRecords, args.limit) >>
    /\ UNCHANGED << args, config, testRecords, nonTestErrors,
                    hasInterruptedTests, fileHandlerFailures, exitCode, summary,
                    summaryFile, lastRunFile, runnerFlaky, phase, calls,
                    generation, hostSuite >>

NextSlowest == FindSlowest

SpecSlowest == InitSlowest /\ [][NextSlowest]_vars

\* The records, of any outcome label, onTestEnd can have built for a test.
AggregateRecordsOf(test) ==
    { [newRecord(test, outcome) EXCEPT !.attempts = a] :
         outcome \in OutcomeLabels, a \in AttemptLists }

\* The stores given to processTestResults: no record, a record of the first
\* test, or records of both tests.
AggregateStoreInputs ==
    LET first == TestLogin
        second == TestCheckout
    IN {<<>>}
       \cup { <<r>> : r \in AggregateRecordsOf(first) }
       \cup { <<r, q>> : r \in AggregateRecordsOf(first),
                         q \in AggregateRecordsOf(second) }

InitAggregate ==
    /\ ReporterIdle
    /\ args \in {[testRecords |-> s] : s \in AggregateStoreInputs}
    /\ returned = <<>>

\* A call of processTestResults on the map the caller holds: the map as the
\* call before left it.  The result and the map after the call are kept.
Aggregate ==
    /\ Len(returned) < MaxAggregations
    /\ LET held == IF returned = <<>> THEN args.testRecords
                   ELSE returned[Len(returned)].store
       IN returned' = Append(returned,
                             [result |-> processTestResults(held),
                              store |-> storeAfterProcessing(held)])
    /\ UNCHANGED << args, config, testRecords, nonTestErrors,
                    hasInterruptedTests, fileHandlerFailures, exitCode, summary,
                    summaryFile, lastRunFile, runnerFlaky, phase, calls,
                    generation, hostSuite >>

NextAggregate == Aggregate

SpecAggregate == InitAggregate /\ [][NextAggregate]_vars

\* The titles of the tests given to getOwningTeam: without a tag, with the
\* tag of a team, with the tags of two teams, and with a tag that is the
\* value but not the name of a member of Team.
OwnerTitles ==
    { <<"l", "o", "g", "i", "n">>,
      <<"[", "Q", "A", "]", " ", "l", "o", "g", "i", "n">>,
      <<"[", "A", "P", "I", "]", " ", "[", "Q", "A", "]", " ", "l", "o",
      "g", "i", "n">>,
      <<"[", "U", "s", "e", "r", " ", "E", "x", "p", "e", "r", "i", "e",
      "n", "c", "e", "]", " ", "l", "o", "g", "i", "n">> }

\* The annotations of the tests given to getOwningTeam.
AnnotationInputs ==
    { [type |-> "team", description |-> "Backend"],
      [type |-> "team", description |-> "Nobody"],
      [type |-> "team", description |-> "toString"],
      [type |-> "owner", description |-> "DevOps"],
      [type |-> "owner", description |-> "Nobody"] }

\* The annotation lists of a test: none to MaxAnnotations annotations.
AnnotationLists ==
    UNION { [1..n -> AnnotationInputs] : n \in 0..MaxAnnotations }

\* The values of process.env.FALLBACK_TEAM.
FallbackInputs == {Unset, "", "Security", "Nobody"}

InitOwner ==
    /\ ReporterIdle
    /\ args \in {[test |-> [title |-> title, annotations |-> a],
                  fallbackTeam |-> f] :
                    title \in OwnerTitles, a \in AnnotationLists,
                    f \in FallbackInputs}
    /\ returned = <<>>

\* A call of getOwningTeam(test) with FALLBACK_TEAM as given.
ResolveOwner ==
    /\ returned = <<>>
    /\ returned' = << getOwningTeam(args.test, args.fallbackTeam) >>
    /\ UNCHANGED << args, config, testRecords, nonTestErrors,
                    hasInterruptedTests, fileHandlerFailures, exitCode, summary,
                    summaryFile, lastRunFile, runnerFlaky, phase, calls,
                    generation, hostSuite >>

NextOwner == ResolveOwner

SpecOwner == InitOwner /\ [][NextOwner]_vars

\* The durations of the lists given to calculateAverageTime.
DurationInputs == {0, 1000, 2000, 3000}

\* The lists of passed durations: none to MaxDurations durations.
DurationLists ==
    UNION { [1..n -> DurationInputs] : n \in 0..MaxDurations }

InitTimes ==
    /\ ReporterIdle
    /\ args \in {[passedDurations |-> d] : d \in DurationLists}
    /\ returned = <<>>

\* The two timing statistics as onEnd computes them from passedDurations:
\* calculateAverageTime(passedDurations) and Math.max(...passedDurations, 0).
ComputeTimes ==
    /\ returned = <<>>
    /\ returned' = << [averageTime |-> calculateAverageTime(args.passedDurations),
                       slowestTest |-> maxWithZero(args.passedDurations)] >>
    /\ UNCHANGED << args, config, testRecords, nonTestErrors,
                    hasInterruptedTests, fileHandlerFailures, exitCode, summary,
                    summaryFile, lastRunFile, runnerFlaky, phase, calls,
                    generation, hostSuite >>

NextTimes == ComputeTimes

SpecTimes == InitTimes /\ [][NextTimes]_vars

----------------------------------------------------------------------------

Next == OnBegin \/ OnError \/ OnTestEnd \/ OnEnd

Spec == Init /\ [][Next]_vars

\* The host that may call onEnd more than once.
NextRepeatedEnd == OnBegin \/ OnError \/ OnTestEnd \/ OnEnd \/ OnEndAgain

SpecRepeatedEnd == Init /\ [][NextRepeatedEnd]_vars

\* The host that may call onError and onTestEnd before onBegin and after
\* onEnd as well.
NextAnyPhase ==
    \/ OnBegin
    \/ OnError
    \/ OnTestEnd
    \/ OnEnd
    \/ OnEndAgain
    \/ OnErrorOutsideRun
    \/ OnTestEndOutsideRun

SpecAnyPhase == Init /\ [][NextAnyPhase]_vars

\* A reporter with its defaults for a suite in which a test of another suite
\* and file has the title of the first test.
InitSharedTitles ==
    /\ config = [maxSlowTestsToShow |-> DefaultMaxSlowTestsToShow,
                 generateFix |-> DefaultGenerateFix]
    /\ hostSuite = Tests
    /\ ReporterInit
    /\ args = <<>>
    /\ returned = <<>>

SpecSharedTitles == InitSharedTitles /\ [][Next]_vars

\* new PlaywrightTestReporter({generateFix: true}).
InitGenerateFix ==
    /\ config = [maxSlowTestsToShow |-> DefaultMaxSlowTestsToShow,
                 generateFix |-> TRUE]
    /\ hostSuite = DistinctTitles
    /\ ReporterInit
    /\ args = <<>>
    /\ returned = <<>>

\* The run of a reporter that generates fix suggestions.
NextGenerateFix ==
    \/ OnBegin
    \/ OnError
    \/ OnTestEnd
    \/ OnEnd
    \/ OnEndAwaitGeneration
    \/ GenerateFixSuggestion
    \/ OnEndAfterGeneration

SpecGenerateFix == InitGenerateFix /\ [][NextGenerateFix]_vars

----------------------------------------------------------------------------
(* Two runs fed the same callbacks in two orders.                          *)

\* The longest sequence of callbacks delivered between onBegin and onEnd.
MaxDeliveries == 3

\* The callbacks the host delivers: for each test the passed attempts
\* labelled expected, a failed one labelled unexpected and an interrupted one
\* labelled skipped, and one non-test error.
DeliveredEvents ==
    { event \in { [kind |-> "onTestEnd", test |-> test, outcome |-> outcome,
                   result |-> result] :
                     test \in DistinctTitles,
                     outcome \in {"expected", "unexpected", "skipped"},
                     result \in Results } :
        \/ event.outcome = "expected" /\ event.result.status = "passed"
        \/ /\ event.outcome = "unexpected" /\ event.result.status = "failed"
           /\ Len(event.result.errors) = 1
        \/ event.outcome = "skipped" /\ event.result.status = "interrupted" }
    \cup { [kind |-> "onError"] }

\* The callback stream an event belongs to: its test's title, or the one
\* stream of the non-test errors.
streamOf(event) ==
    IF event.kind = "onError" THEN "onError" ELSE event.test.title

\* The events of a stream, in the order the delivery has them.
eventsOfStream(delivery, stream) ==
    LET inStream(event) == streamOf(event) = stream
    IN SelectSeq(delivery, inStream)

\* The serialized deliveries of the same callbacks that keep every test's
\* own attempts in the order this delivery has them.
interleavingsOf(delivery) ==
    LET delivered == {delivery[i] : i \in 1..Len(delivery)}
        streams == {streamOf(event) : event \in delivered}
    IN { other \in [1..Len(delivery) -> delivered] :
           \A stream \in streams :
              eventsOfStream(other, stream) = eventsOfStream(delivery, stream) }

\* A reporter is constructed for the first of two deliveries of the same
\* callbacks.
InitInterleave ==
    /\ config = [maxSlowTestsToShow |-> DefaultMaxSlowTestsToShow,
                 generateFix |-> DefaultGenerateFix]
    /\ hostSuite = DistinctTitles
    /\ ReporterInit
    /\ \E first \in UNION { [1..n -> DeliveredEvents] : n \in 0..MaxDeliveries } :
          args \in { [deliveries |-> << first, second >>] :
                        second \in interleavingsOf(first) }
    /\ returned = <<>>

\* The delivery the reporter under way is fed.
currentDelivery == args.deliveries[Len(returned) + 1]

\* The position in the delivery of the callback the host makes next.
nextPosition == calls.onTestEnd + calls.onError + 1

\* onBegin of the run of a delivery.
BeginDelivery ==
    /\ Len(returned) < Len(args.deliveries)
    /\ OnBegin

\* The host makes the onTestEnd call the delivery has next.
DeliverAttempt ==
    /\ phase = "Running"
    /\ nextPosition <= Len(currentDelivery)
    /\ currentDelivery[nextPosition].kind = "onTestEnd"
    /\ LET event == currentDelivery[nextPosition]
       IN onTestEnd(event.test, event.outcome, event.result)

\* The host makes the onError call the delivery has next.
DeliverError ==
    /\ phase = "Running"
    /\ nextPosition <= Len(currentDelivery)
    /\ currentDelivery[nextPosition].kind = "onError"
    /\ onErrorHandler

\* onEnd once the whole delivery is made.
EndDelivery ==
    /\ phase = "Running"
    /\ nextPosition > Len(currentDelivery)
    /\ onEndHandler

\* What onEnd computed and decided: the counts, passedDurations and the exit
\* code.
runResult ==
    LET results == processTestResults(testRecords)
    IN [testCount |-> results.testCount,
        passedCount |-> results.passedCount,
        skippedCount |-> results.skippedCount,
        failedCount |-> buildSummary(results, testRecords, config).failedCount,
        passedDurations |-> results.passedDurations,
        exitCode |-> exitCode]

\* The result of the run is noted, and a reporter is constructed anew for
\* the next delivery.
Conclude ==
    /\ phase = "Ended"
    /\ Len(returned) < Len(args.deliveries)
    /\ returned' = Append(returned, runResult)
    /\ testRecords' = <<>>
    /\ nonTestErrors' = <<>>
    /\ hasInterruptedTests' = FALSE
    /\ fileHandlerFailures' = <<>>
    /\ exitCode' = -1
    /\ summary' = <<>>
    /\ summaryFile' = <<>>
    /\ lastRunFile' = <<>>
    /\ runnerFlaky' = {}
    /\ phase' = "NotStarted"
    /\ calls' = [onTestEnd |-> 0, onError |-> 0, onEnd |-> 0]
    /\ generation' = [pending |-> <<>>, outcomes |-> <<>>]
    /\ UNCHANGED << config, args, hostSuite >>

NextInterleave ==
    \/ BeginDelivery
    \/ DeliverAttempt
    \/ DeliverError
    \/ EndDelivery
    \/ Conclude

SpecInterleave == InitInterleave /\ [][NextInterleave]_vars

----------------------------------------------------------------------------
(* The run whose onEnd, once called, goes on to its end.                   *)

\* A reporter constructed with fix suggestions enabled or not.
InitProgress ==
    /\ config \in { [maxSlowTestsToShow |-> DefaultMaxSlowTestsToShow,
                     generateFix |-> enabled] : enabled \in BOOLEAN }
    /\ hostSuite = DistinctTitles
    /\ ReporterInit
    /\ args = <<>>
    /\ returned = <<>>

\* The turn of the loop of _generateFixSuggestions for a failure without a
\* testFile: continue, with nothing awaited.
TurnWithoutAwait ==
    /\ GenerateFixSuggestion
    /\ generationOutcomes(Head(generation.pending)) = {"skipped"}

\* onEnd is an async method.  Once the host has called it, the event loop
\* runs what does not wait for anything outside the reporter: a turn of the
\* loop that awaits nothing, and the rest of onEnd once the loop is done.
\* A turn for a failure with a testFile awaits
\* GenAIUtils.generateFixSuggestion with no timeout, and goes on only if
\* that call settles, of which the reporter has no guarantee.  The host is
\* under no obligation to make a call.
ProgressOfOnEnd ==
    /\ WF_vars(TurnWithoutAwait)
    /\ WF_vars(OnEndAfterGeneration)

SpecProgress == InitProgress /\ [][NextGenerateFix]_vars /\ ProgressOfOnEnd

----------------------------------------------------------------------------
(* The exit code onEnd leaves.                                             *)

\* C1: in every run that recorded at least one test, onEnd sets the exit
\* code to 1 exactly when the summary's failures list is non-empty, or a
\* non-test error was recorded, or some attempt had status interrupted, and
\* to 0 otherwise.
C1_ExitCodeIffErrors ==
    (phase = "Ended" /\ testRecords # <<>>) =>
        /\ summary # <<>>
        /\ exitCode \in {0, 1}
        /\ exitCode = 1 <=>
              \/ summary[1].failures # <<>>
              \/ nonTestErrors # <<>>
              \/ \E i \in 1..Len(testRecords) :
                    \E j \in 1..Len(testRecords[i].attempts) :
                       testRecords[i].attempts[j].status = "interrupted"

\* A run ended with exit code 1 for an interrupted attempt alone: no failure
\* in the summary and no non-test error.
C1_Witness ==
    /\ phase = "Ended"
    /\ testRecords # <<>>
    /\ summary # <<>>
    /\ summary[1].failures = <<>>
    /\ nonTestErrors = <<>>
    /\ \E i \in 1..Len(testRecords) :
          \E j \in 1..Len(testRecords[i].attempts) :
             testRecords[i].attempts[j].status = "interrupted"
    /\ exitCode = 1

\* C2: in every run in which no attempt was recorded, onEnd sets the exit
\* code to 1, however many non-test errors were recorded and whatever the
\* configuration.
C2_NoTestsExitsWithError ==
    (phase = "Ended" /\ testRecords = <<>>) => exitCode = 1

\* A run of a reporter configured with maxSlowTestsToShow 1 ended with no
\* attempt and no non-test error recorded, and exit code 1.
C2_Witness ==
    /\ phase = "Ended"
    /\ config.maxSlowTestsToShow = 1
    /\ testRecords = <<>>
    /\ calls.onTestEnd = 0
    /\ nonTestErrors = <<>>
    /\ exitCode = 1

\* C3: a test whose first attempt failed and whose retry passed, for which
\* the runner reported unexpected at the first attempt and flaky at the
\* retry, is not the subject of a Failure in the summary; when it is the only
\* test it is the one counted in passedCount, passedDurations holds the
\* duration of its passing attempt only, and with no non-test error and no
\* interruption the exit code is 0.
C3_FlakyCountsAsPassed ==
    (phase = "Ended" /\ summary # <<>>) =>
        \A i \in 1..Len(testRecords) :
           LET record == testRecords[i]
               attempts == record.attempts
               last == attempts[Len(attempts)]
           IN (/\ Len(attempts) = 2
               /\ attempts[1].status = "failed"
               /\ last.status = "passed"
               /\ record.test.outcome = "unexpected"
               /\ record.test.testTitle \in runnerFlaky)
              =>
              /\ \A k \in 1..Len(summary[1].failures) :
                    summary[1].failures[k].testTitle # record.test.testTitle
              /\ (Len(testRecords) = 1) =>
                    /\ summary[1].passedCount = 1
                    /\ processTestResults(testRecords).passedDurations
                          = << last.duration >>
                    /\ (nonTestErrors = <<>> /\ ~hasInterruptedTests)
                          => exitCode = 0

\* C4: if onError was called at least once during the run, onEnd sets the
\* exit code to 1 whatever the outcomes of the tests.
C4_NonTestErrorExitsWithError ==
    (phase = "Ended" /\ calls.onError > 0) => exitCode = 1

\* A run ended with exit code 1 in which onError was called and every
\* recorded test passed.
C4_Witness ==
    /\ phase = "Ended"
    /\ calls.onError > 0
    /\ testRecords # <<>>
    /\ summary # <<>>
    /\ summary[1].passedCount = summary[1].testCount
    /\ summary[1].failures = <<>>
    /\ ~hasInterruptedTests
    /\ exitCode = 1

\* C5: once an attempt with status interrupted is recorded, the interruption
\* flag is true after every later onTestEnd and onError call, and onEnd then
\* sets the exit code to 1.
C5_InterruptionIsSticky ==
    (\E i \in 1..Len(testRecords) :
        \E j \in 1..Len(testRecords[i].attempts) :
           testRecords[i].attempts[j].status = "interrupted")
    =>
    /\ hasInterruptedTests
    /\ phase = "Ended" => exitCode = 1

\* A run ended with exit code 1 in which a test was interrupted and then
\* passed on a later attempt.
C5_Witness ==
    /\ phase = "Ended"
    /\ \E i \in 1..Len(testRecords) :
          /\ Len(testRecords[i].attempts) = 2
          /\ testRecords[i].attempts[1].status = "interrupted"
          /\ testRecords[i].attempts[2].status = "passed"
          /\ testRecords[i].test.outcome = "expected"
    /\ hasInterruptedTests
    /\ exitCode = 1

\* C6: the exit code onEnd sets for a run with recorded tests is the one the
\* recorded events determine, both when testSummary.json and .last-run.json
\* were written and when the writes failed.
C6_ExitCodeIgnoresWrites ==
    LET signal ==
            IF \/ summary[1].failures # <<>>
               \/ nonTestErrors # <<>>
               \/ hasInterruptedTests
            THEN 1 ELSE 0
    IN /\ (/\ phase = "Ended" /\ testRecords # <<>>
           /\ summaryFile # <<>> /\ lastRunFile # <<>>) => exitCode = signal
       /\ (/\ phase = "Ended" /\ testRecords # <<>>
           /\ (summaryFile = <<>> \/ lastRunFile = <<>>)) => exitCode = signal

\* A run with a passed test ended with exit code 0 although neither file
\* could be written.
C6_Witness ==
    /\ phase = "Ended"
    /\ testRecords # <<>>
    /\ summary # <<>>
    /\ summaryFile = <<>>
    /\ lastRunFile = <<>>
    /\ summary[1].passedCount > 0
    /\ exitCode = 0

\* C7: a run with at least one recorded test in which every test has outcome
\* skipped, no non-test error was recorded and no attempt was interrupted
\* ends with exit code 0.
C7_AllSkippedExitsWithSuccess ==
    (/\ phase = "Ended"
     /\ testRecords # <<>>
     /\ \A i \in 1..Len(testRecords) : testRecords[i].test.outcome = "skipped"
     /\ nonTestErrors = <<>>
     /\ \A i \in 1..Len(testRecords) :
           \A j \in 1..Len(testRecords[i].attempts) :
              testRecords[i].attempts[j].status # "interrupted")
    => exitCode = 0

\* A run of two skipped tests ended with exit code 0 and both counted as
\* skipped.
C7_Witness ==
    /\ phase = "Ended"
    /\ Len(testRecords) = 2
    /\ \A i \in 1..Len(testRecords) :
          /\ testRecords[i].test.outcome = "skipped"
          /\ testRecords[i].attempts[1].status = "skipped"
    /\ nonTestErrors = <<>>
    /\ summary # <<>>
    /\ summary[1].skippedCount = 2
    /\ exitCode = 0

----------------------------------------------------------------------------
(* The failure classifier and the Failure of a test that ended unexpected. *)

\* The ordered rules 1..9 of the failure classifier: the substrings of each
\* rule and its category.
ClassifierRules ==
    << [substrings |-> {sNoNodeFound, sNotVisible},
        category |-> "ElementNotFound"],
       [substrings |-> {sTimeout, sTimedOut},
        category |-> "Timeout/DelayedElement"],
       [substrings |-> {sSelector, sLocator},
        category |-> "SelectorChanged"],
       [substrings |-> {sExpectParen, sAssertionFailed},
        category |-> "AssertionFailure"],
       [substrings |-> {sNetwork, sFetchFailed, sStatusEq},
        category |-> "NetworkError"],
       [substrings |-> {sJavascriptError, sUndefinedIsNot, sNull},
        category |-> "JavaScriptError"],
       [substrings |-> {sNavigation, sPageGoto},
        category |-> "NavigationError"],
       [substrings |-> {sElementNotClickable, sIntercepted},
        category |-> "ElementInteractionError"],
       [substrings |-> {sPermission, sAccessDenied},
        category |-> "PermissionError"] >>

\* C8: for every message, categorizeError returns the category of the
\* lowest-numbered of the rules 1..9 one of whose substrings the message
\* contains, and Unknown when no rule matches.
C8_FirstMatchWins ==
    returned # <<>> =>
        LET matching ==
                {n \in 1..Len(ClassifierRules) :
                    \E s \in ClassifierRules[n].substrings :
                       includes(args.message, s)}
            lowest == CHOOSE n \in matching : \A m \in matching : n <= m
        IN returned[1] =
              IF matching = {} THEN "Unknown"
              ELSE ClassifierRules[lowest].category

\* categorizeError returned Timeout/DelayedElement for a message containing
\* both "selector" (rule 3) and "timed out" (rule 2).
C8_Witness ==
    /\ returned # <<>>
    /\ includes(args.message, sSelector)
    /\ includes(args.message, sTimedOut)
    /\ returned[1] = "Timeout/DelayedElement"

\* C9: for every Failure the summary builds from a test with outcome
\* unexpected, isTimeout is true exactly when some error message of the
\* test's last attempt contains "Timeout" or "timed out", whatever the
\* attempt's status.
C9_IsTimeoutFromMessage ==
    (phase = "Ended" /\ summary # <<>>) =>
        \A i \in 1..Len(testRecords) :
           LET record == testRecords[i]
               last == record.attempts[Len(record.attempts)]
               saysTimeout ==
                   \E e \in 1..Len(last.errors) :
                      \/ includes(chars(last.errors[e].message), sTimeout)
                      \/ includes(chars(last.errors[e].message), sTimedOut)
           IN record.test.outcome = "unexpected" =>
                 \A k \in 1..Len(summary[1].failures) :
                    summary[1].failures[k].testTitle = record.test.testTitle
                       => (summary[1].failures[k].isTimeout <=> saysTimeout)

----------------------------------------------------------------------------
(* The slowest tests.                                                      *)

\* C10: for every store and every non-negative limit, the list
\* findSlowestTests returns, which onEnd puts in the summary as slowestTests,
\* has at most limit entries and its durations are in non-increasing order.
C10_SlowestBoundedAndSorted ==
    returned # <<>> =>
        /\ Len(returned[1]) <= args.limit
        /\ \A i \in 1..(Len(returned[1]) - 1) :
              returned[1][i].duration >= returned[1][i + 1].duration

\* findSlowestTests with limit 2 returned two entries, the slower first, for
\* a store of more than two passed attempts whose first is the faster.
C10_Witness ==
    /\ returned # <<>>
    /\ args.limit = 2
    /\ Len(args.testRecords) = 2
    /\ \A i \in 1..2 : \A j \in 1..Len(args.testRecords[i].attempts) :
          args.testRecords[i].attempts[j].status = "passed"
    /\ Len(args.testRecords[1].attempts) = 2
    /\ args.testRecords[1].attempts[1].duration = 1000
    /\ args.testRecords[2].attempts[1].duration = 2000
    /\ Len(returned[1]) = 2
    /\ returned[1][1].duration = 2000
    /\ returned[1][2].duration <= 2000

----------------------------------------------------------------------------
(* The timing statistics.                                                  *)

\* C11: every entry of the summary's slowestTests is drawn from the pool of
\* passedDurations: the entries with a given title and duration are no more
\* than the durations of that value the test with that title contributes to
\* passedDurations.  Stated for the runs in which every record holds the
\* label the runner gives a test after a first attempt of its status.
C11_SlowestFromPassedDurations ==
    (/\ phase = "Ended" /\ summary # <<>>
     /\ \A i \in 1..Len(testRecords) :
           LET first == testRecords[i].attempts[1].status
               label == testRecords[i].test.outcome
           IN \/ first = "passed" /\ label = "expected"
              \/ first = "skipped" /\ label = "skipped"
              \/ first \in {"failed", "timedOut"} /\ label = "unexpected")
    =>
        LET slowest == summary[1].slowestTests
        IN \A k \in 1..Len(slowest) :
              \E i \in 1..Len(testRecords) :
                 LET contributed ==
                         processTestResults(<< testRecords[i] >>).passedDurations
                     listed == {n \in 1..Len(slowest) : slowest[n] = slowest[k]}
                     pooled == {n \in 1..Len(contributed) :
                                   contributed[n] = slowest[k].duration}
                 IN /\ testRecords[i].test.testTitle = slowest[k].testTitle
                    /\ Cardinality(listed) <= Cardinality(pooled)

\* C12: passedDurations, as onEnd computes it, holds the duration of every
\* attempt of every recorded test whose own status is passed, each once, and
\* no duration of an attempt of another status.  Stated for the runs in
\* which every record holds the label the runner gives a test after a first
\* attempt of its status.
C12_PassedDurationsOfAllPassedAttempts ==
    (/\ phase = "Ended" /\ summary # <<>>
     /\ \A i \in 1..Len(testRecords) :
           LET first == testRecords[i].attempts[1].status
               label == testRecords[i].test.outcome
           IN \/ first = "passed" /\ label = "expected"
              \/ first = "skipped" /\ label = "skipped"
              \/ first \in {"failed", "timedOut"} /\ label = "unexpected")
    =>
        LET passedDurations == processTestResults(testRecords).passedDurations
            places == {p \in (1..Len(testRecords)) \X (1..MaxEvents) :
                          p[2] <= Len(testRecords[p[1]].attempts)}
            passedPlaces(d) ==
                {p \in places :
                    /\ testRecords[p[1]].attempts[p[2]].status = "passed"
                    /\ testRecords[p[1]].attempts[p[2]].duration = d}
            occurrences(d) ==
                {n \in 1..Len(passedDurations) : passedDurations[n] = d}
            durations ==
                {testRecords[p[1]].attempts[p[2]].duration : p \in places}
                \cup {passedDurations[n] : n \in 1..Len(passedDurations)}
        IN \A d \in durations :
              Cardinality(occurrences(d)) = Cardinality(passedPlaces(d))

\* C13: averageTime is the arithmetic mean of passedDurations and 0 when
\* passedDurations is empty (2 for the durations 1 and 3); slowestTest is the
\* maximum of passedDurations and 0 when it is empty.
C13_AverageAndMaximum ==
    returned # <<>> =>
        LET durations == args.passedDurations
            averageTime == returned[1].averageTime
            slowestTest == returned[1].slowestTest
        IN /\ durations = <<>> =>
                 /\ averageTime = [num |-> 0, den |-> 1]
                 /\ slowestTest = 0
           /\ durations # <<>> =>
                 /\ averageTime.den > 0
                 /\ averageTime.num * Len(durations)
                       = sumOf(durations) * averageTime.den
                 /\ \E i \in 1..Len(durations) : durations[i] = slowestTest
                 /\ \A i \in 1..Len(durations) : durations[i] <= slowestTest
           /\ durations = << 1000, 3000 >> =>
                 averageTime = [num |-> 2000, den |-> 1]

\* The statistics of the durations 1 and 3 of a second: average 2, maximum 3.
C13_Witness ==
    /\ returned # <<>>
    /\ args.passedDurations = << 1000, 3000 >>
    /\ returned[1].averageTime = [num |-> 2000, den |-> 1]
    /\ returned[1].slowestTest = 3000

----------------------------------------------------------------------------
(* Aggregation.                                                            *)

C15_BucketsPartitionTests ==
    summary # <<>> =>
        /\ summary[1].testCount = Len(testRecords)
        /\ summary[1].testCount
              = summary[1].passedCount + summary[1].skippedCount
                + Len(summary[1].failures)
        /\ summary[1].failedCount = Len(summary[1].failures)
        /\ summary[1].failedCount >= 0
        /\ summary[1].passedCount >= 0
        /\ summary[1].skippedCount >= 0

\* A summary of two tests, one skipped and one with a Failure.
C15_Witness ==
    /\ summary # <<>>
    /\ summary[1].testCount = 2
    /\ summary[1].skippedCount = 1
    /\ summary[1].passedCount = 0
    /\ summary[1].failedCount = 1
    /\ Len(summary[1].failures) = 1

\* C16: when no test was recorded, onEnd builds no summary, writes neither
\* testSummary.json nor .last-run.json, and only sets the exit code to 1.
C16_NoTestsWritesNothing ==
    (phase = "Ended" /\ testRecords = <<>>) =>
        /\ summary = <<>>
        /\ summaryFile = <<>>
        /\ lastRunFile = <<>>
        /\ exitCode = 1

\* A run in which only a non-test error was recorded ended with exit code 1
\* and nothing written.
C16_Witness ==
    /\ phase = "Ended"
    /\ testRecords = <<>>
    /\ nonTestErrors # <<>>
    /\ summary = <<>>
    /\ summaryFile = <<>>
    /\ lastRunFile = <<>>
    /\ exitCode = 1

----------------------------------------------------------------------------
(* The last-run status.                                                    *)

\* C17: the failedTests list onEnd writes to .last-run.json holds exactly the
\* ids of the tests for which the summary contains a Failure.  Stated for the
\* runs in which every record holds one of the runner's four outcome labels.
C17_FailedTestsAreTheFailures ==
    (/\ phase = "Ended" /\ summary # <<>> /\ lastRunFile # <<>>
     /\ \A i \in 1..Len(testRecords) :
           testRecords[i].test.outcome
              \in {"skipped", "expected", "unexpected", "flaky"})
    =>
    LET failedTests == lastRunFile[1].failedTests
        failures == summary[1].failures
    IN {failedTests[i] : i \in 1..Len(failedTests)}
          = {failures[k].testId : k \in 1..Len(failures)}

----------------------------------------------------------------------------
(* The owning team.                                                        *)

\* C18: getOwningTeam resolves by strict precedence: the name of a member of
\* Team in square brackets in the title, else the description of the team
\* annotation, else that of the owner annotation, else the environment's
\* fallback team; a description or fallback that is not the name of a member
\* of Team is ignored, and "Unknown" is returned when nothing matches.
C18_OwningTeamPrecedence ==
    returned # <<>> =>
        LET test == args.test
            recognized(name) == \E i \in 1..Len(TeamKeys) : TeamKeys[i] = name
            tagged == {i \in 1..Len(TeamKeys) :
                          includes(test.title, wrap(teamChars(TeamKeys[i])))}
            described(type) ==
                {i \in 1..Len(test.annotations) : test.annotations[i].type = type}
            named(type) ==
                IF described(type) = {} THEN Unset
                ELSE test.annotations[CHOOSE i \in described(type) :
                        \A j \in described(type) : i <= j].description
        IN IF tagged # {}
           THEN \E i \in tagged : returned[1] = TeamKeys[i]
           ELSE IF recognized(named("team")) THEN returned[1] = named("team")
           ELSE IF recognized(named("owner")) THEN returned[1] = named("owner")
           ELSE IF recognized(args.fallbackTeam)
           THEN returned[1] = args.fallbackTeam
           ELSE returned[1] = "Unknown"

----------------------------------------------------------------------------
(* The run controller and the store.                                       *)

\* C19: an onEnd call that follows an onEnd call with no event in between
\* computes the testCount, passedCount, skippedCount, failedCount and
\* failures of the call before it and sets the same exit code.
C19_EndTwiceSameResult ==
    [][(phase = "Ended" /\ calls'.onEnd = calls.onEnd + 1) =>
          /\ exitCode' = exitCode
          /\ (summary' = <<>>) <=> (summary = <<>>)
          /\ summary # <<>> =>
                /\ summary'[1].testCount = summary[1].testCount
                /\ summary'[1].passedCount = summary[1].passedCount
                /\ summary'[1].skippedCount = summary[1].skippedCount
                /\ summary'[1].failedCount = summary[1].failedCount
                /\ summary'[1].failures = summary[1].failures]_vars

\* onEnd was called twice on a run with a failing test; the exit code is 1.
C19_Witness ==
    /\ phase = "Ended"
    /\ calls.onEnd = 2
    /\ summary # <<>>
    /\ summary[1].failures # <<>>
    /\ exitCode = 1

\* C20: after every onTestEnd call every record has at least one attempt; a
\* record is created only by the first onTestEnd call for its title, and no
\* later call replaces or recreates it.
C20_RecordsCreatedOnce ==
    [][/\ \A i \in 1..Len(testRecords') : testRecords'[i].attempts # <<>>
       /\ \A i, j \in 1..Len(testRecords') :
             i # j => testRecords'[i].test.testTitle # testRecords'[j].test.testTitle
       /\ Len(testRecords') >= Len(testRecords)
       /\ \A i \in 1..Len(testRecords) :
             /\ testRecords'[i].test = testRecords[i].test
             /\ Len(testRecords'[i].attempts) >= Len(testRecords[i].attempts)
       /\ Len(testRecords') > Len(testRecords) =>
             /\ Len(testRecords') = Len(testRecords) + 1
             /\ calls'.onTestEnd = calls.onTestEnd + 1
             /\ Len(testRecords'[Len(testRecords')].attempts) = 1
             /\ \A i \in 1..Len(testRecords) :
                   testRecords[i].test.testTitle
                      # testRecords'[Len(testRecords')].test.testTitle]_vars

\* Two onTestEnd calls for one title left one record with two attempts.
C20_Witness ==
    /\ calls.onTestEnd = 2
    /\ Len(testRecords) = 1
    /\ Len(testRecords[1].attempts) = 2

\* C21: a record's attempts are append-only and in arrival order.  Every step
\* keeps the attempts each record had, in their order, as a prefix of what it
\* has after; an onTestEnd call adds the attempt of its result at the end of
\* the attempts of its title's record and adds nothing else; no other call
\* changes any record's attempts.
C21_AttemptsAppendOnly ==
    [][/\ Len(testRecords') >= Len(testRecords)
       /\ \A i \in 1..Len(testRecords) :
             /\ Len(testRecords'[i].attempts) >= Len(testRecords[i].attempts)
             /\ SubSeq(testRecords'[i].attempts, 1, Len(testRecords[i].attempts))
                   = testRecords[i].attempts
       /\ IF calls'.onTestEnd = calls.onTestEnd + 1
          THEN \E test \in hostSuite, result \in Results :
                  LET i == indexOfTitle(testRecords', test.title)
                      before == IF indexOfTitle(testRecords, test.title) = 0
                                THEN <<>>
                                ELSE testRecords[i].attempts
                  IN /\ i # 0
                     /\ testRecords'[i].attempts = Append(before, attemptOf(result))
                     /\ \A j \in 1..Len(testRecords') :
                           j # i => /\ j <= Len(testRecords)
                                    /\ testRecords'[j].attempts
                                          = testRecords[j].attempts
          ELSE /\ Len(testRecords') = Len(testRecords)
               /\ \A i \in 1..Len(testRecords) :
                     testRecords'[i].attempts = testRecords[i].attempts]_vars

\* A record holds a failed attempt followed by a passed one, and onEnd ran.
C21_Witness ==
    /\ phase = "Ended"
    /\ Len(testRecords) = 1
    /\ Len(testRecords[1].attempts) = 2
    /\ testRecords[1].attempts[1].status = "failed"
    /\ testRecords[1].attempts[2].status = "passed"

\* C22: the metadata of a record is fixed when the record is created.  No
\* step changes the outcome, status, owning team, suite title or test id of a
\* record that exists, whatever label the runner reports in the call, and the
\* status is the one derived from the outcome captured.
C22_MetadataFixedAtCreation ==
    [][/\ \A i \in 1..Len(testRecords) :
             /\ i <= Len(testRecords')
             /\ testRecords'[i].test.outcome = testRecords[i].test.outcome
             /\ testRecords'[i].test.status = testRecords[i].test.status
             /\ testRecords'[i].test.owningTeam = testRecords[i].test.owningTeam
             /\ testRecords'[i].test.suiteTitle = testRecords[i].test.suiteTitle
             /\ testRecords'[i].test.testId = testRecords[i].test.testId
       /\ \A i \in 1..Len(testRecords') :
             testRecords'[i].test.status
                = outcomeToStatus(testRecords'[i].test.outcome)]_vars

\* The record was created while the runner reported 'unexpected'; the last
\* call for its title came with 'flaky', and the record still says
\* 'unexpected'.
C22_Witness ==
    /\ Len(testRecords) = 1
    /\ Len(testRecords[1].attempts) = 2
    /\ testRecords[1].test.outcome = "unexpected"
    /\ testRecords[1].test.testTitle \in runnerFlaky

\* C23: the bucket of a record at onEnd is decided by the outcome captured in
\* the record alone.  The records captured as expected or flaky are the
\* passed ones, those captured as skipped the skipped ones, and each other
\* record, in the order of the store, has exactly one Failure; the statuses
\* of the attempts play no part.
C23_BucketByCapturedOutcome ==
    (phase = "Ended" /\ summary # <<>>) =>
        LET isPassed(r) == r.test.outcome \in {"expected", "flaky"}
            isSkipped(r) == r.test.outcome = "skipped"
            isFailure(r) == ~isPassed(r) /\ ~isSkipped(r)
            failed == SelectSeq(testRecords, isFailure)
        IN /\ summary[1].passedCount = Len(SelectSeq(testRecords, isPassed))
           /\ summary[1].skippedCount = Len(SelectSeq(testRecords, isSkipped))
           /\ Len(summary[1].failures) = Len(failed)
           /\ \A k \in 1..Len(failed) :
                 summary[1].failures[k].testTitle = failed[k].test.testTitle

\* A record captured as expected whose only attempt failed was counted as
\* passed, and a record captured as unexpected whose only attempt passed has
\* the one Failure.
C23_Witness ==
    /\ phase = "Ended"
    /\ summary # <<>>
    /\ Len(testRecords) = 2
    /\ testRecords[1].test.outcome = "expected"
    /\ testRecords[1].attempts[1].status = "failed"
    /\ testRecords[2].test.outcome = "unexpected"
    /\ testRecords[2].attempts[1].status = "passed"
    /\ summary[1].passedCount = 1
    /\ Len(summary[1].failures) = 1

\* C24: onTestEnd and onError take effect only between onBegin and onEnd.  A
\* call made before onBegin or after onEnd changes neither the store, nor
\* the non-test errors, nor the interruption flag.
C24_CallsOnlyWhileRunning ==
    [][(/\ phase # "Running"
        /\ \/ calls'.onError = calls.onError + 1
           \/ calls'.onTestEnd = calls.onTestEnd + 1)
          => UNCHANGED << testRecords, nonTestErrors, hasInterruptedTests >>]_vars

\* C25: an onTestEnd call hands exactly one Failure to the file handler when
\* the attempt's status is failed or timedOut and none otherwise.  The
\* Failure carries the test's id and title, the message and stack of the
\* attempt's first error and the attempt's duration, and no later call takes
\* it back.
C25_ProvisionalFailurePerFailedAttempt ==
    [][IF calls'.onTestEnd = calls.onTestEnd + 1
       THEN \E test \in hostSuite, result \in Results :
               LET i == indexOfTitle(testRecords', test.title)
                   attempts == testRecords'[i].attempts
                   errors == result.errors
               IN /\ i # 0
                  /\ attempts[Len(attempts)] = attemptOf(result)
                  /\ IF result.status \in {"failed", "timedOut"}
                     THEN /\ Len(fileHandlerFailures') = Len(fileHandlerFailures) + 1
                          /\ SubSeq(fileHandlerFailures', 1, Len(fileHandlerFailures))
                                = fileHandlerFailures
                          /\ LET handed == fileHandlerFailures'[Len(fileHandlerFailures')]
                             IN /\ handed.testId = test.id
                                /\ handed.testTitle = test.title
                                /\ handed.duration = result.duration
                                /\ handed.errorMessage =
                                      IF errors = <<>> \/ errors[1].message = ""
                                      THEN "Unknown error"
                                      ELSE errors[1].message
                                /\ handed.errorStack =
                                      IF errors = <<>> \/ errors[1].stack = NoStack
                                      THEN ""
                                      ELSE errors[1].stack
                     ELSE fileHandlerFailures' = fileHandlerFailures
       ELSE fileHandlerFailures' = fileHandlerFailures]_vars

\* The first attempt of a test failed and was handed to the file handler; the
\* test passed on retry and the summary has no Failure.
C25_Witness ==
    /\ phase = "Ended"
    /\ summary # <<>>
    /\ summary[1].failures = <<>>
    /\ Len(testRecords) = 1
    /\ Len(testRecords[1].attempts) = 2
    /\ testRecords[1].attempts[1].status = "failed"
    /\ testRecords[1].attempts[2].status = "passed"
    /\ Len(fileHandlerFailures) = 1
    /\ fileHandlerFailures[1].testTitle = testRecords[1].test.testTitle

\* C26: records are keyed by title alone.  The store has one record for a
\* title whatever the ids, suites and files of the tests that carry it: the
\* failed attempts handed to the file handler under a title, whichever test
\* they came from, are all attempts of that one record; testCount counts
\* the title once; and the record has the id, suite and file of the test
\* seen first.
C26_KeyedByTitle ==
    /\ \A i, j \in 1..Len(testRecords) :
          testRecords[i].test.testTitle = testRecords[j].test.testTitle => i = j
    /\ \A i \in 1..Len(testRecords) :
          LET record == testRecords[i]
              ofTitle(f) == f.testTitle = record.test.testTitle
              handed == SelectSeq(fileHandlerFailures, ofTitle)
              isFailed(a) == a.status \in {"failed", "timedOut"}
          IN /\ Len(SelectSeq(record.attempts, isFailed)) = Len(handed)
             /\ isFailed(record.attempts[1]) =>
                   /\ handed[1].testId = record.test.testId
                   /\ handed[1].suiteTitle = record.test.suiteTitle
                   /\ handed[1].testFile = record.test.testFile
    /\ (phase = "Ended" /\ summary # <<>>) =>
          summary[1].testCount =
             Cardinality({testRecords[i].test.testTitle : i \in 1..Len(testRecords)})

\* Two tests with the title 'login' each failed once: one record holds both
\* attempts, it has the id and suite of the test seen first, and testCount
\* is 1.
C26_Witness ==
    /\ phase = "Ended"
    /\ summary # <<>>
    /\ summary[1].testCount = 1
    /\ Len(testRecords) = 1
    /\ Len(testRecords[1].attempts) = 2
    /\ Len(fileHandlerFailures) = 2
    /\ fileHandlerFailures[1].testId = "id-3"
    /\ fileHandlerFailures[2].testId = "id-1"
    /\ testRecords[1].test.testId = "id-3"
    /\ testRecords[1].test.suiteTitle = "Admin"

\* C27: the Failure of a record captured as unexpected is built from the
\* record's last attempt: errorMessage is the message of its first error,
\* errorCategory the category of that message, errorStack the stacks of all
\* its errors joined by newlines, and duration its duration.
C27_FailureFromLastAttempt ==
    (phase = "Ended" /\ summary # <<>>) =>
        LET hasFailure(r) == r.test.outcome \notin {"expected", "flaky", "skipped"}
            failed == SelectSeq(testRecords, hasFailure)
        IN \A k \in 1..Len(failed) :
              failed[k].test.outcome = "unexpected" =>
                 LET failure == summary[1].failures[k]
                     attempts == failed[k].attempts
                     last == attempts[Len(attempts)]
                     errors == last.errors
                     stackAt(i) == IF errors[i].stack = NoStack THEN ""
                                   ELSE errors[i].stack
                 IN /\ failure.testTitle = failed[k].test.testTitle
                    /\ failure.errorMessage =
                          IF errors = <<>> THEN "" ELSE errors[1].message
                    /\ failure.errorCategory
                          = categorizeError(chars(failure.errorMessage))
                    /\ failure.errorStack =
                          CASE Len(errors) = 0 -> ""
                            [] Len(errors) = 1 -> stackAt(1)
                            [] Len(errors) = 2 -> stackAt(1) \o "\n" \o stackAt(2)
                    /\ failure.duration = last.duration

\* A record captured as unexpected whose first attempt failed with one error
\* and whose last attempt failed with two: the Failure has the first message
\* and both stacks of the last attempt.
C27_Witness ==
    /\ phase = "Ended"
    /\ summary # <<>>
    /\ Len(testRecords) = 1
    /\ testRecords[1].test.outcome = "unexpected"
    /\ Len(testRecords[1].attempts) = 2
    /\ Len(testRecords[1].attempts[1].errors) = 1
    /\ Len(testRecords[1].attempts[2].errors) = 2
    /\ summary[1].failures[1].errorMessage = "selector timed out"
    /\ summary[1].failures[1].errorStack = "at a.ts:1\nat b.ts:2"
    /\ summary[1].failures[1].duration = 2000

\* C28: a record whose captured outcome is none of expected, flaky,
\* unexpected and skipped has a synthesized Failure with an empty stack and
\* isTimeout false; its message is "Test was interrupted" when the record's
\* last attempt has the status interrupted and "Unknown outcome: <label>"
\* otherwise.
C28_SynthesizedFailure ==
    (phase = "Ended" /\ summary # <<>>) =>
        LET hasFailure(r) == r.test.outcome \notin {"expected", "flaky", "skipped"}
            failed == SelectSeq(testRecords, hasFailure)
        IN \A k \in 1..Len(failed) :
              failed[k].test.outcome # "unexpected" =>
                 LET failure == summary[1].failures[k]
                     attempts == failed[k].attempts
                 IN /\ failure.testTitle = failed[k].test.testTitle
                    /\ failure.errorStack = ""
                    /\ failure.isTimeout = FALSE
                    /\ failure.errorMessage =
                          IF attempts[Len(attempts)].status = "interrupted"
                          THEN "Test was interrupted"
                          ELSE "Unknown outcome: " \o failed[k].test.outcome

\* Two records with a label the code does not handle: the last attempt of the
\* first was interrupted, the last attempt of the second passed.
C28_Witness ==
    /\ phase = "Ended"
    /\ summary # <<>>
    /\ Len(testRecords) = 2
    /\ testRecords[1].test.outcome = "interrupted"
    /\ testRecords[1].attempts[1].status = "interrupted"
    /\ testRecords[2].test.outcome = "interrupted"
    /\ testRecords[2].attempts[1].status = "passed"
    /\ summary[1].failures[1].errorMessage = "Test was interrupted"
    /\ summary[1].failures[2].errorMessage = "Unknown outcome: interrupted"

\* C30: entries of slowestTests with equal durations keep their encounter
\* order (records in first-seen order, attempts in order within a record).
\* The place of an entry is one more than the number of entries that are
\* slower or that are as slow and were encountered before it, and the list
\* is cut after the first limit places.
C30_SlowestTiesInEncounterOrder ==
    returned # <<>> =>
        LET entries == flatMapSlow(args.testRecords, 1)
            slowest == returned[1]
            place(i) ==
                1 + Cardinality({j \in 1..Len(entries) :
                                    \/ entries[j].duration > entries[i].duration
                                    \/ /\ entries[j].duration = entries[i].duration
                                       /\ j < i})
        IN /\ Len(slowest) = IF args.limit < Len(entries) THEN args.limit
                             ELSE Len(entries)
           /\ \A i \in 1..Len(entries) :
                 place(i) <= Len(slowest) => slowest[place(i)] = entries[i]

\* Two tests passed in the same time and the limit is 1: the list has the
\* test encountered first.
C30_Witness ==
    /\ returned # <<>>
    /\ args.limit = 1
    /\ Len(args.testRecords) = 2
    /\ \A i \in 1..2 :
          /\ Len(args.testRecords[i].attempts) = 1
          /\ args.testRecords[i].attempts[1].status = "passed"
          /\ args.testRecords[i].attempts[1].duration = 1000
    /\ returned[1] = << [testTitle |-> args.testRecords[1].test.testTitle,
                         duration |-> 1000] >>

\* C29: fix-suggestion generation is isolated from the exit decision.  With
\* generation enabled, whatever becomes of the suggestions, onEnd completes
\* with the exit code it sets without generation: 1 when there are no tests,
\* a Failure, a non-test error or an interrupted attempt, and 0 otherwise.
\* And onEnd sets the exit code of a run with Failures only when the loop
\* has taken every Failure.
C29_GenerationIsolatedFromExit ==
    [][/\ phase' = "Ended" =>
             /\ exitCode' \in {0, 1}
             /\ exitCode' = 1 <=>
                   \/ testRecords' = <<>>
                   \/ summary'[1].failures # <<>>
                   \/ nonTestErrors' # <<>>
                   \/ hasInterruptedTests'
       /\ (/\ exitCode' # exitCode
           /\ config.generateFix
           /\ summary' # <<>>
           /\ summary'[1].failures # <<>>)
             => /\ generation'.pending = <<>>
                /\ Len(generation'.outcomes) = Len(summary'[1].failures)]_vars

\* Generation was enabled and went wrong for the first of two Failures; both
\* were taken and onEnd set the exit code 1.
C29_Witness ==
    /\ phase = "Ended"
    /\ config.generateFix
    /\ summary # <<>>
    /\ Len(summary[1].failures) = 2
    /\ Len(generation.outcomes) = 2
    /\ generation.outcomes[1] \in {"unreadable", "rejected"}
    /\ exitCode = 1

----------------------------------------------------------------------------
(* What the run as a whole keeps.                                          *)

\* C31: no attempt is lost or duplicated.  The attempts stored over all
\* records are as many as the onTestEnd calls made, and the non-test errors
\* stored are as many as the onError calls made.
C31_NothingLostOrDuplicated ==
    LET stored[i \in 0..Len(testRecords)] ==
            IF i = 0 THEN 0 ELSE stored[i - 1] + Len(testRecords[i].attempts)
    IN /\ stored[Len(testRecords)] = calls.onTestEnd
       /\ Len(nonTestErrors) = calls.onError

\* Two attempts of one test and one non-test error were delivered and are
\* stored.
C31_Witness ==
    /\ calls.onTestEnd = 2
    /\ calls.onError = 1
    /\ Len(testRecords) = 1
    /\ Len(testRecords[1].attempts) = 2
    /\ Len(nonTestErrors) = 1

\* C33: the last-run status never reports a failure the exit code hides.
\* Whenever onEnd has written .last-run.json with status "failed", the exit
\* code it has set is 1.
C33_FailedStatusExitsWithError ==
    (phase = "Ended" /\ lastRunFile # <<>> /\ lastRunFile[1].status = "failed")
        => exitCode = 1

\* onEnd wrote .last-run.json with status "failed" for a run with one failed
\* test, no non-test error and no interruption, and set the exit code to 1.
C33_Witness ==
    /\ phase = "Ended"
    /\ lastRunFile # <<>>
    /\ lastRunFile[1].status = "failed"
    /\ Len(summary[1].failures) = 1
    /\ nonTestErrors = <<>>
    /\ ~hasInterruptedTests
    /\ exitCode = 1

\* C34: the two fields of .last-run.json agree.  Whenever onEnd has written
\* status "passed", the failedTests list it has written is empty.  Stated
\* for the runs in which every record holds one of the runner's four outcome
\* labels.
C34_PassedStatusListsNoFailedTest ==
    (/\ phase = "Ended" /\ lastRunFile # <<>>
     /\ \A i \in 1..Len(testRecords) :
           testRecords[i].test.outcome
              \in {"skipped", "expected", "unexpected", "flaky"}
     /\ lastRunFile[1].status = "passed")
    => lastRunFile[1].failedTests = <<>>

\* C35: the two timing statistics of a summary agree.  When slowestTests is
\* not empty the duration of its first entry is slowestTest, and
\* slowestTests is empty exactly when passedDurations is empty
\* (maxSlowTestsToShow is at least 1 in every configuration of the run).
\* Stated for the runs in which every record holds the label the runner
\* gives a test after a first attempt of its status.
C35_TimingStatisticsAgree ==
    (/\ phase = "Ended" /\ summary # <<>>
     /\ config.maxSlowTestsToShow >= 1
     /\ \A i \in 1..Len(testRecords) :
           LET first == testRecords[i].attempts[1].status
               label == testRecords[i].test.outcome
           IN \/ first = "passed" /\ label = "expected"
              \/ first = "skipped" /\ label = "skipped"
              \/ first \in {"failed", "timedOut"} /\ label = "unexpected")
    =>
        LET slowest == summary[1].slowestTests
            passedDurations == processTestResults(testRecords).passedDurations
        IN /\ slowest # <<>> => slowest[1].duration = summary[1].slowestTest
           /\ slowest = <<>> <=> passedDurations = <<>>

\* C32: the result does not depend on how the host interleaves the callbacks
\* of different tests.  Two deliveries of the same onTestEnd and onError
\* calls that keep each test's own attempts in the same order end with the
\* same testCount, passedCount, skippedCount and failedCount, the same
\* multiset of passedDurations and the same exit code.
C32_InterleavingIndependent ==
    Len(returned) = 2 =>
        LET one == returned[1]
            two == returned[2]
            timesIn(durations, d) ==
                Cardinality({i \in 1..Len(durations) : durations[i] = d})
        IN /\ one.testCount = two.testCount
           /\ one.passedCount = two.passedCount
           /\ one.skippedCount = two.skippedCount
           /\ one.failedCount = two.failedCount
           /\ Len(one.passedDurations) = Len(two.passedDurations)
           /\ \A i \in 1..Len(one.passedDurations) :
                 timesIn(one.passedDurations, one.passedDurations[i])
                    = timesIn(two.passedDurations, one.passedDurations[i])
           /\ one.exitCode = two.exitCode
           /\ one.exitCode \in {0, 1}

\* Two tests were delivered in the two orders, one of them interrupted at
\* its first attempt and the other passed: both runs counted two tests, one
\* passed, and ended with exit code 1.
C32_Witness ==
    /\ Len(returned) = 2
    /\ args.deliveries[1] # args.deliveries[2]
    /\ Len(args.deliveries[1]) = 2
    /\ args.deliveries[1][1].kind = "onTestEnd"
    /\ args.deliveries[1][1].result.status = "interrupted"
    /\ args.deliveries[1][2].kind = "onTestEnd"
    /\ args.deliveries[1][2].result.status = "passed"
    /\ returned[1].testCount = 2
    /\ returned[1].passedCount = 1
    /\ returned[1].passedDurations = << 1000 >>
    /\ returned[2].exitCode = 1

\* C36: every run reaches an exit decision.  Once the host has called onEnd,
\* after onBegin and any onTestEnd and onError calls, onEnd completes with
\* the exit code set to 0 or to 1, whatever the outcome labels and the
\* statuses of the attempts, records whose last attempt has no errors
\* included.
C36_EndReachesExitDecision ==
    (calls.onEnd > 0) ~> (phase = "Ended" /\ exitCode \in {0, 1})

====
